---- MODULE Spec2Model ----
(***************************************************************************)
(* Pairing-code servers of priscy82/Pair.                                  *)
(*                                                                         *)
(* The repository holds near-identical variants of one server.  The state  *)
(* variable "variant" fixes which file a behaviour runs:                   *)
(*   "server" src/server.js          "p000" src/unnamed/part_000           *)
(*   "p003"   src/unnamed/part_003   "p004" src/unnamed/part_004           *)
(*   "p006"   src/unnamed/part_006   "p005" src/unnamed/part_005           *)
(*                                                                         *)
(* A step of the model is one run-to-completion segment of the Node.js     *)
(* event loop: a timer callback, a socket event handler, an HTTP handler   *)
(* up to its first await, or the continuation of an async function from    *)
(* one await to the next.  Timer delays are abstracted: a pending timer    *)
(* may fire at any later step (but for the per-request timers of part_000, *)
(* which fire when the clock "now" has reached their time).  File-system   *)
(* calls that the sources guard with try/catch, or that a crash can        *)
(* interrupt, have both outcomes.                                          *)
(*                                                                         *)
(* server.js and part_005 have no queue: every request runs its own loop   *)
(* (the Generate and Gen... actions, the ...005 actions); the other        *)
(* variants queue it.                                                      *)
(*                                                                         *)
(* A slot of a batch holds "code" or "failed"; the text of a code is       *)
(* modelled on its own (FormatCode).  The timer inside part_000's          *)
(* generatePairingCode is the CallTimeout action.  Left out: the /ui       *)
(* routes.                                                                 *)
(***************************************************************************)
EXTENDS Integers, Sequences, FiniteSets, TLC

(* ------------------------------ bounds -------------------------------- *)
MaxReq == 3        \* HTTP generate requests accepted in one behaviour
MaxSocks == 2      \* sockets alive at the same time
MaxTimers == 2     \* pending timers of one kind
MaxResets == 1     \* POST /api/reset calls in one behaviour
MaxCodeLen == 9    \* characters of a raw code (the provider's codes have 8)
MAX_COUNT == 2     \* process.env.MAX_COUNT (the sources default to 500)
REQUEST_TIMEOUT == 200000  \* ms, process.env.REQUEST_TIMEOUT of part_000 (default
                           \* 30000); above expiryAge / 2 a request can reach the
                           \* expiry age before its own timer is due

(* -------------------------- program constants ------------------------- *)
maxAttempts == 3
maxReconnectAttempts == 10
minDigits == 10    \* shortest digits-only phone accepted
maxDigits == 15    \* longest digits-only phone server.js accepts
expiryAge == 300000  \* ms, the age above which part_000 rejects a request at drain
baseDelay == 1000  \* ms, the factor of part_000's reconnect backoff
maxDelay == 30000  \* ms, the cap of part_000's reconnect backoff

Variants == {"server", "p000", "p003", "p004", "p006"}
QueueVariants == {"p000", "p003", "p004", "p006"}
PhoneQueueVariants == {"p003", "p004", "p006"}
Phones == {1, 2}   \* two different phones, written with digits only
Socks == 1..MaxSocks
Reqs == 1..MaxReq

\* The phone texts a request can carry (req.body.number, or the part of the
\* input before '|'), each a string of characters.
Numbers == {1, 2, 3, 4, 5}
PhoneNumber ==
  [n \in Numbers |->
     CASE n = 1 -> <<"1", "5", "5", "5", "1", "2", "3", "4", "5", "6", "7">>
       [] n = 2 -> <<"4", "4", "7", "7", "0", "0", "9", "0", "0", "1", "2", "3">>
       [] n = 3 -> <<"+", "1", " ", "5", "5", "5", "-", "1", "2", "3", "-",
                     "4", "5", "6", "7">>
       [] n = 4 -> <<"5", "5", "5", "-", "1", "2", "3", "4">>
       [] n = 5 -> <<"+", "-">>]

SpareWorker == 0
Workers == Numbers \cup {SpareWorker}
NoWorker == -1

\* Baileys' DisconnectReason status codes (timedOut and connectionLost share 408).
DisconnectReason ==
  [connectionClosed |-> 428, connectionLost |-> 408, connectionReplaced |-> 440,
   timedOut |-> 408, loggedOut |-> 401, badSession |-> 500, restartRequired |-> 515]

\* What lastDisconnect.error can be: absent, an Error without a status code,
\* or a Boom error carrying one of the status codes.
NoError == 0
PlainError == 1
Errors == {NoError, PlainError, 401, 408, 428, 440, 500, 515}

VARIABLES
  variant,            \* which source file runs
  alive,              \* the process has not crashed
  sock,               \* global sock: 0 (null) or the socket last created
  sockState,          \* per socket: "none", "connecting", "open", "closed"
  socketReady,        \* socketReady / isConnected / ready
  sessionDir,         \* session directory: "absent", "empty", "creds"
  restartTimers,      \* pending setTimeout(startSock) / setTimeout(initializeSocket)
  clearTimers,        \* pending setTimeout(clearSessionAndRestart)
  connecting,         \* part_000 connecting
  reconnectAttempts,  \* part_000 reconnectAttempts
  resets,             \* /api/reset calls made so far
  phoneQueues,        \* queue key -> [requests, processing]
  workers,            \* worker loops (processPhoneQueue / processQueue runs)
  reqs,               \* request id -> the request and its promise
  nextReq,            \* id of the next request
  files,              \* request id -> its batch file under the tmp and final names
  logCsv,             \* generated_codes/log.csv: [exists, headers, rows]
  busy,               \* worker running a synchronous stretch, or NoWorker
  now,                \* Date.now() in ms since the process started
  last                \* what the last step did (observation only)

vars == <<variant, alive, sock, sockState, socketReady, sessionDir, restartTimers,
          clearTimers, connecting, reconnectAttempts, resets,
          phoneQueues, workers, reqs, nextReq, files, logCsv, busy, now, last>>

connVars == <<sock, sockState, socketReady, sessionDir, restartTimers, clearTimers,
              connecting, reconnectAttempts>>
queueVars == <<phoneQueues, workers, reqs, nextReq, files, logCsv, busy>>

Min(a, b) == IF a < b THEN a ELSE b
Max(a, b) == IF a > b THEN a ELSE b

\* last: what the last step was, if it was a socket event (op, reason,
\* rmThrew) or an HTTP request (op, and the number and count it carried).
NoLast == [op |-> "none", reason |-> 0, rmThrew |-> FALSE, number |-> 0, count |-> 0,
           delay |-> 0, attempts |-> 0, raw |-> <<>>, formatted |-> <<>>]

(* ------------------------- connection manager ------------------------- *)

\* new Boom(err).output.statusCode: a Boom error keeps its status code,
\* anything else (no error, a plain Error) is wrapped with status 500.
BoomStatusCode(err) == IF err \in {NoError, PlainError} THEN 500 ELSE err

\* The reason the close handler of a variant switches on.
ReasonCode(v, err) ==
  IF v = "server"
    THEN (IF err \in {NoError, PlainError} THEN 0 ELSE err)
    ELSE BoomStatusCode(err)

WipeReasons == {DisconnectReason.badSession, DisconnectReason.loggedOut}
TransientReasons ==
  {DisconnectReason.connectionClosed, DisconnectReason.connectionLost,
   DisconnectReason.timedOut, DisconnectReason.restartRequired}

\* The close handler calls clearSessionAndRestart / clearSession.
ClosesWithWipe(v, err) ==
  CASE v \in {"server", "p003"} -> ReasonCode(v, err) \in WipeReasons
    [] v = "p004" -> err # NoError /\ ReasonCode(v, err) \in WipeReasons
    [] v = "p006" -> FALSE
    [] v = "p000" -> ReasonCode(v, err) = DisconnectReason.loggedOut

\* A close handler that schedules no startSock of its own.
NoSoftRestart(v, err) == FALSE

\* The close handler schedules a startSock itself (not through
\* clearSessionAndRestart).
ClosesWithSoftRestart(v, err) ==
  CASE v \in {"server", "p003", "p004"} -> ~ClosesWithWipe(v, err)
    [] v = "p006" ->
         ReasonCode(v, err) \in {DisconnectReason.connectionClosed,
                                 DisconnectReason.connectionLost}
    [] v = "p000" -> FALSE

\* ensureDirectories / mkdirSync at the head of startSock.
EnsureDir(dir) == IF dir = "absent" THEN "empty" ELSE dir

\* A backoff without the cap.
NoCapDelay(attempts) == baseDelay * 2^attempts

\* part_000 scheduleReconnect: the delay of the timer, from the incremented
\* reconnectAttempts.
ReconnectDelay(attempts) == Min(baseDelay * 2^attempts, maxDelay)

\* A scheduleReconnect without the ceiling.
AlwaysReconnect(attempts) == <<attempts + 1, 1>>

\* part_000 scheduleReconnect: <<reconnectAttempts', timers added>>.
ScheduleReconnect(attempts) ==
  IF attempts >= maxReconnectAttempts
    THEN <<attempts, 0>>
    ELSE <<attempts + 1, 1>>

\* fs.rmSync of the session directory is reached only when it exists.
RmReached(dir) == dir # "absent"

\* clearSessionAndRestart, given whether fs.rmSync throws:
\* [ready, dir, timers added, threw].  server.js leaves isConnected alone;
\* part_006 has no try/catch, so a throwing rmSync leaves before setTimeout.
ClearSessionAndRestart(v, ready, dir, rmThrows) ==
  LET failed == RmReached(dir) /\ rmThrows
      escapes == failed /\ v = "p006"
  IN  [ready |-> IF v = "server" THEN ready ELSE FALSE,
       dir |-> IF failed THEN dir ELSE "absent",
       timers |-> IF escapes THEN 0 ELSE 1,
       threw |-> escapes]

LiveSocks == {s \in Socks : sockState[s] \in {"connecting", "open"}}
FreeSocks == {s \in Socks : sockState[s] \in {"none", "closed"}}
Idle == alive /\ busy = NoWorker

\* A catch block that only logs.
NoRetry(v, attempts) == <<attempts, 0>>

\* Timers the catch block of startSock / initializeSocket adds:
\* <<reconnectAttempts', timers added>>.
InitFailureRetry(v, attempts) ==
  IF v = "p000" THEN ScheduleReconnect(attempts) ELSE <<attempts, 1>>

\* A startSock / initializeSocket timer (or the call at boot) runs: the auth
\* state is read and makeWASocket creates the socket, or one of them throws.
\* part_000 returns at once while connecting is set.
StartSock(throws) ==
  /\ Idle
  /\ restartTimers > 0
  /\ IF variant = "p000" /\ connecting
       THEN /\ ~throws
            /\ restartTimers' = restartTimers - 1
            /\ UNCHANGED <<sock, sockState, sessionDir, connecting, reconnectAttempts>>
            /\ last' = NoLast
       ELSE IF throws
         THEN LET r == InitFailureRetry(variant, reconnectAttempts) IN
                /\ reconnectAttempts' = r[1]
                /\ restartTimers' = restartTimers - 1 + r[2]
                /\ connecting' = FALSE
                /\ sessionDir' = IF variant = "p000" THEN sessionDir
                                 ELSE EnsureDir(sessionDir)
                /\ last' = [NoLast EXCEPT
                              !.op = "initFailed",
                              !.delay = IF variant = "p000" /\ r[2] > 0
                                          THEN ReconnectDelay(r[1]) ELSE 0]
                /\ UNCHANGED <<sock, sockState>>
         ELSE /\ FreeSocks # {}
              /\ LET s == CHOOSE x \in FreeSocks : \A y \in FreeSocks : x <= y IN
                   /\ sock' = s
                   /\ sockState' = [sockState EXCEPT ![s] = "connecting"]
              /\ restartTimers' = restartTimers - 1
              /\ connecting' = (variant = "p000")
              /\ sessionDir' = EnsureDir(sessionDir)
              /\ last' = NoLast
              /\ UNCHANGED reconnectAttempts
  /\ UNCHANGED <<variant, now, alive, socketReady, clearTimers, resets>>
  /\ UNCHANGED queueVars

\* An 'open' handler that leaves reconnectAttempts alone.
OpenKeepsAttempts(s) ==
  /\ Idle
  /\ sockState[s] = "connecting"
  /\ sockState' = [sockState EXCEPT ![s] = "open"]
  /\ socketReady' = TRUE
  /\ connecting' = FALSE
  /\ last' = [NoLast EXCEPT !.op = "open", !.attempts = reconnectAttempts]
  /\ UNCHANGED <<variant, now, alive, sock, sessionDir, restartTimers, clearTimers, resets,
                 reconnectAttempts>>
  /\ UNCHANGED queueVars

\* An 'open' handler that leaves connecting alone.
OpenKeepsConnecting(s) ==
  /\ Idle
  /\ sockState[s] = "connecting"
  /\ sockState' = [sockState EXCEPT ![s] = "open"]
  /\ socketReady' = TRUE
  /\ connecting' = connecting
  /\ reconnectAttempts' = 0
  /\ last' = [NoLast EXCEPT !.op = "open", !.attempts = reconnectAttempts]
  /\ UNCHANGED <<variant, now, alive, sock, sessionDir, restartTimers, clearTimers, resets>>
  /\ UNCHANGED queueVars

\* connection.update with connection === 'open' (last.attempts: the counter
\* the handler found).
SockOpen(s) ==
  /\ Idle
  /\ sockState[s] = "connecting"
  /\ sockState' = [sockState EXCEPT ![s] = "open"]
  /\ socketReady' = TRUE
  /\ connecting' = FALSE
  /\ reconnectAttempts' = 0
  /\ last' = [NoLast EXCEPT !.op = "open", !.attempts = reconnectAttempts]
  /\ UNCHANGED <<variant, now, alive, sock, sessionDir, restartTimers, clearTimers, resets>>
  /\ UNCHANGED queueVars

\* connection.update with connection === 'close' on a variant other than part_000.
CloseHandler(err, rmThrows) ==
  LET wipe == ClosesWithWipe(variant, err)
      c == ClearSessionAndRestart(variant, FALSE, sessionDir, rmThrows)
  IN  /\ socketReady' = FALSE
      /\ sessionDir' = IF wipe THEN c.dir ELSE sessionDir
      /\ restartTimers' = restartTimers
                          + (IF wipe THEN c.timers ELSE 0)
                          + (IF ClosesWithSoftRestart(variant, err) THEN 1 ELSE 0)
      /\ UNCHANGED <<connecting, reconnectAttempts>>

\* The close handler of part_000.
CloseHandler000(err, rmThrows) ==
  LET code == ReasonCode("p000", err)
      shouldReconnect == code # DisconnectReason.loggedOut
      first == shouldReconnect /\ reconnectAttempts < maxReconnectAttempts
      second == ~first /\ code = DisconnectReason.loggedOut
      r == IF first \/ second THEN ScheduleReconnect(reconnectAttempts)
           ELSE <<reconnectAttempts, 0>>
  IN  /\ socketReady' = FALSE
      /\ connecting' = FALSE
      /\ sessionDir' = IF second /\ RmReached(sessionDir) /\ ~rmThrows
                         THEN "absent" ELSE sessionDir
      /\ reconnectAttempts' = r[1]
      /\ restartTimers' = restartTimers + r[2]

\* A batch is in progress in worker record wk.
InBatch(wk) == wk.pc \in {"call", "delay", "backoff", "genCall", "genDelay", "rateWait"}

SockClose(s, err, rmThrows) ==
  /\ Idle
  /\ sockState[s] \in {"connecting", "open"}
  /\ sockState' = [sockState EXCEPT ![s] = "closed"]
  /\ IF variant = "p000" THEN CloseHandler000(err, rmThrows)
                         ELSE CloseHandler(err, rmThrows)
  /\ restartTimers' <= MaxTimers
  /\ last' = [NoLast EXCEPT !.op = "close", !.reason = ReasonCode(variant, err),
                            !.delay = IF variant = "p000" /\ restartTimers' > restartTimers
                                        THEN ReconnectDelay(reconnectAttempts') ELSE 0,
                            !.rmThrew = (RmReached(sessionDir) /\ rmThrows)]
  /\ workers' = [w \in Workers |->
                   IF InBatch(workers[w]) THEN [workers[w] EXCEPT !.lost = TRUE]
                                          ELSE workers[w]]
  /\ UNCHANGED <<variant, now, alive, sock, clearTimers, resets>>
  /\ UNCHANGED <<phoneQueues, reqs, nextReq, files, logCsv, busy>>

\* creds.update: saveCreds writes into the session directory.
CredsUpdate(s) ==
  /\ Idle
  /\ sockState[s] \in {"connecting", "open"}
  /\ sessionDir = "empty"
  /\ sessionDir' = "creds"
  /\ last' = NoLast
  /\ UNCHANGED <<variant, now, alive, sock, sockState, socketReady, restartTimers,
                 clearTimers, connecting, reconnectAttempts, resets>>
  /\ UNCHANGED queueVars

\* A setTimeout(clearSessionAndRestart) fires (part_003, part_004, and the
\* finally block of generatePairingCodes in server.js).
ClearTimerFire(rmThrows) ==
  /\ Idle
  /\ clearTimers > 0
  /\ restartTimers < MaxTimers
  /\ clearTimers' = clearTimers - 1
  /\ LET c == ClearSessionAndRestart(variant, socketReady, sessionDir, rmThrows) IN
       /\ socketReady' = c.ready
       /\ sessionDir' = c.dir
       /\ restartTimers' = restartTimers + c.timers
  /\ last' = NoLast
  /\ UNCHANGED <<variant, now, alive, sock, sockState, connecting, reconnectAttempts, resets>>
  /\ UNCHANGED queueVars

\* POST /api/reset (part_003, part_004).
ApiReset(rmThrows) ==
  /\ Idle
  /\ variant \in {"p003", "p004"}
  /\ resets < MaxResets
  /\ restartTimers < MaxTimers
  /\ resets' = resets + 1
  /\ LET c == ClearSessionAndRestart(variant, socketReady, sessionDir, rmThrows) IN
       /\ socketReady' = c.ready
       /\ sessionDir' = c.dir
       /\ restartTimers' = restartTimers + c.timers
  /\ last' = NoLast
  /\ UNCHANGED <<variant, now, alive, sock, sockState, clearTimers, connecting,
                 reconnectAttempts>>
  /\ UNCHANGED queueVars

(* ------------------------ per-phone request queue ---------------------- *)

\* A run of a worker loop (or, in server.js, of generatePairingCodes): where
\* it is, its queue key, the request it serves, the loop index, the attempt
\* at this index and the batch so far; threw: a requestPairingCode call of
\* the batch threw; lost: the socket closed during the batch (the last two
\* are observations, the code keeps neither).
FreeWorker == [pc |-> "free", key |-> 0, req |-> 0, i |-> 0, attempt |-> 0,
               codes |-> <<>>, threw |-> FALSE, lost |-> FALSE]
\* A request as its caller sees it: status none -> pending -> resolved/rejected,
\* err the rejection's error, file whether the result names a saved file;
\* called: sock.requestPairingCode has been invoked for it.
\* phone: the number whose text the variant works with (0: none of Numbers);
\* arg: the text it hands to sock.requestPairingCode.
\* ts: its timestamp (Date.now() at the enqueue); timer: the timer that
\* part_000 sets for it is pending.
\* abandoned: the calls made for it that generatePairingCode of part_000 gave
\* up on after REQUEST_TIMEOUT and that the provider has not ended yet.
NoReq == [status |-> "none", phone |-> 0, arg |-> <<>>, count |-> 0,
          called |-> FALSE, err |-> "", file |-> FALSE, ts |-> 0, timer |-> FALSE,
          abandoned |-> 0]

RawCounts == (-1)..(MAX_COUNT + 1)

Digits == {"0", "1", "2", "3", "4", "5", "6", "7", "8", "9"}
IsDigit(c) == c \in Digits

\* phone.replace(/\D/g, ''): the digits of the text, in order.
DigitsOnly(s) == SelectSeq(s, IsDigit)

\* A handler that takes every phone text.
AnyPhone(v, clean) == TRUE

\* The test a handler makes on the digits-only phone; part_003, part_004 and
\* part_006 make none.
ValidPhone(v, clean) ==
  CASE v = "server" ->
         clean # <<>> /\ Len(clean) >= minDigits /\ Len(clean) <= maxDigits
    [] v = "p000" -> clean # <<>> /\ Len(clean) >= minDigits
    [] OTHER -> TRUE

\* The text a variant works with (queue key, requestPairingCode argument):
\* server.js and part_000 strip the non-digits, the others take the text as
\* it came.
PhoneUsed(v, n) ==
  IF v \in {"server", "p000"} THEN DigitsOnly(PhoneNumber[n]) ELSE PhoneNumber[n]

\* The number that is written s (0 when none of Numbers is).
NumberOf(s) ==
  IF \E n \in Numbers : PhoneNumber[n] = s
    THEN CHOOSE n \in Numbers : PhoneNumber[n] = s
    ELSE 0

\* The early "Socket not ready" answer of the HTTP handler (no enqueue).
HandlerRejects(v) ==
  CASE v \in {"p003", "p004"} -> ~socketReady \/ sock = 0
    [] v = "p000" -> ~socketReady
    [] OTHER -> FALSE

\* A handler that hands the count on as it came.
NoClamp(v, count) == count

\* The count the handler hands to queuePairingRequest.
SanitizedCount(v, count) ==
  IF v = "p000" THEN Min(count, MAX_COUNT)
                ELSE Max(1, Min(count, MAX_COUNT))

\* The error a handler answers with before it queues or generates anything
\* ("": none), for the phone text numbered n and the given count, in the
\* order of the handler's tests.  server.js: the handler's test of the
\* fields, then the tests at the head of generatePairingCodes (its count
\* limit is the literal 500, which MAX_COUNT stands for).
Refusal(v, n, count) ==
  LET clean == DigitsOnly(PhoneNumber[n]) IN
    CASE v = "server" ->
           IF count = 0 THEN "missing"
           ELSE IF sock = 0 \/ ~socketReady THEN "notConnected"
           ELSE IF ~ValidPhone(v, clean) THEN "invalidPhone"
           ELSE IF count < 1 \/ count > MAX_COUNT THEN "invalidCount"
           ELSE ""
      [] v = "p000" ->
           IF ~ValidPhone(v, clean) THEN "invalidPhone"
           ELSE IF HandlerRejects(v) THEN "notReady"
           ELSE ""
      [] OTHER ->
           IF count = 0 THEN "missing"
           ELSE IF HandlerRejects(v) THEN "notReady"
           ELSE ""

\* One queue for every phone.
OneQueueKey(v, phone) == 1

\* phoneQueues is keyed by phone; part_000 keeps one requestQueue for all.
QueueKey(v, phone) == IF v = "p000" THEN 1 ELSE phone

\* A worker started without looking at queue.processing.
NeverProcessing(k) == FALSE

\* if (queue.processing) return;
AlreadyProcessing(k) == phoneQueues[k].processing

\* queue.requests.pop(): the newest request first.
Pop(q) == <<q[Len(q)], SubSeq(q, 1, Len(q) - 1)>>

\* queue.requests.shift(): <<the request taken, the requests left>>.
Shift(q) == <<Head(q), Tail(q)>>

\* A worker that starts the batch whatever the connection's state.
NoReadyCheck(v) == FALSE

\* The worker's check before it starts a batch.
NotReadyAtDrain(v) ==
  IF v = "p006" THEN ~socketReady ELSE (sock = 0 \/ ~socketReady)

\* Timers (setTimeout(clearSessionAndRestart)) set when a request settles:
\* by the worker and, on a rejection, by the catch block of /api/generate.
SettleTimers(v, ok) ==
  CASE v = "p003" -> IF ok THEN 1 ELSE 2
    [] v = "p004" -> 1
    [] OTHER -> 0

\* saveCodesToDisk without the lines that write log.csv.
NoLogCsv(v) == FALSE

\* saveCodesToDisk writing straight to the final name.
NoTempFile(v) == FALSE

UsesTempFile(v) == v \in {"p000", "p003", "p004"}
WritesLogCsv(v) == v \in {"p003", "p004"}

Repeat(x, n) == [j \in 1..n |-> x]

\* A batch that ends after the slot it has just filled.
EndsBatch(wk, cnt) == [wk EXCEPT !.pc = "save"]

\* A slot of the batch is filled: sleep PAIR_DELAY, or the batch is complete.
SlotDone(wk, cnt) ==
  IF wk.i < cnt - 1 THEN [wk EXCEPT !.pc = "delay"]
                    ELSE [wk EXCEPT !.pc = "save"]

\* part_003: an attempt failed; retry after a backoff, or record 'failed'.
AttemptFailed(wk, cnt) ==
  IF wk.attempt < maxAttempts
    THEN [wk EXCEPT !.pc = "backoff"]
    ELSE SlotDone([wk EXCEPT !.codes = Append(@, "failed")], cnt)

\* The worker reaches slot wk.i: [wk: the worker at its next await,
\* called: whether sock.requestPairingCode was invoked].
BeginSlot(v, wk, cnt) ==
  CASE v = "p003" ->
         IF sock = 0 \/ ~socketReady
           THEN [wk |-> AttemptFailed(wk, cnt), called |-> FALSE]
           ELSE [wk |-> [wk EXCEPT !.pc = "call"], called |-> TRUE]
    [] v = "p000" ->
         IF wk.i >= cnt
           THEN [wk |-> [wk EXCEPT !.pc = "save"], called |-> FALSE]
           ELSE IF ~socketReady \/ sock = 0
             THEN [wk |-> [wk EXCEPT !.pc = "save",
                                     !.codes = @ \o Repeat("failed", cnt - wk.i)],
                   called |-> FALSE]
             ELSE [wk |-> [wk EXCEPT !.pc = "call"], called |-> TRUE]
    [] OTHER -> [wk |-> [wk EXCEPT !.pc = "call"], called |-> TRUE]

CountCall(r, called) ==
  [reqs EXCEPT ![r].called = @ \/ called]

BusyAfter(w, wk) == IF wk.pc = "save" THEN w ELSE NoWorker

\* A request settles (resolve or reject; a promise keeps its first outcome)
\* and the worker goes on to its next await.  qNonEmpty: requests are left.
\* rm1, rm2: whether fs.rmSync throws in the clearSessionAndRestart calls
\* part_006 makes from the try block and from the catch block.
Settle(w, r, ok, err, qNonEmpty, rm1, rm2) ==
  LET v == variant
      wk == workers[w]
      idle == [wk EXCEPT !.req = 0, !.i = 0, !.attempt = 0, !.codes = <<>>,
                         !.threw = FALSE, !.lost = FALSE]
      c1 == ClearSessionAndRestart(v, socketReady, sessionDir, rm1)
      c2 == ClearSessionAndRestart(v, c1.ready, c1.dir, rm2)
      twice == ok /\ c1.threw
      cl == IF twice THEN c2 ELSE c1
      again == (v = "p003" /\ ~ok) \/ ~qNonEmpty
  IN  /\ reqs' = [reqs EXCEPT ![r] =
                    IF @.status = "pending"
                      THEN [@ EXCEPT !.status = IF ok THEN "resolved" ELSE "rejected",
                                     !.err = err, !.file = ok]
                      ELSE @]
      /\ clearTimers' = clearTimers + SettleTimers(v, ok)
      /\ clearTimers' <= MaxTimers
      /\ IF v = "p006"
           THEN /\ socketReady' = cl.ready
                /\ sessionDir' = cl.dir
                /\ restartTimers' = restartTimers + c1.timers
                                    + (IF twice THEN c2.timers ELSE 0)
                /\ workers' = [workers EXCEPT ![w] =
                                 [idle EXCEPT !.pc = IF cl.threw THEN "dead"
                                                     ELSE "cooldown"]]
                /\ busy' = NoWorker
           ELSE /\ UNCHANGED <<socketReady, sessionDir, restartTimers>>
                /\ workers' = [workers EXCEPT ![w] =
                                 [idle EXCEPT !.pc = IF again THEN "loop"
                                                     ELSE "cooldown"]]
                /\ busy' = IF again THEN w ELSE NoWorker
      /\ restartTimers' <= MaxTimers

WorkerFrame ==
  /\ last' = NoLast
  /\ UNCHANGED <<variant, now, alive, sock, sockState, connecting, reconnectAttempts,
                 resets, nextReq>>
NoConnChange == UNCHANGED <<socketReady, sessionDir, restartTimers, clearTimers>>

\* POST /api/generate up to its await: queuePairingRequest pushes the request
\* and calls processPhoneQueue, which returns at once when a worker is active.
Enqueue(number, count) ==
  /\ Idle
  /\ variant \in QueueVariants
  /\ nextReq <= MaxReq
  /\ Refusal(variant, number, count) = ""
  /\ LET r == nextReq
         arg == PhoneUsed(variant, number)
         phone == NumberOf(arg)
         k == QueueKey(variant, phone)
         spawn == ~AlreadyProcessing(k)
         w == IF workers[k].pc = "free" THEN k ELSE SpareWorker
     IN  /\ spawn => workers[w].pc = "free"
         /\ reqs' = [reqs EXCEPT ![r] =
                       [NoReq EXCEPT !.status = "pending", !.phone = phone,
                                     !.arg = arg,
                                     !.count = SanitizedCount(variant, count),
                                     !.ts = now,
                                     !.timer = (variant = "p000")]]
         /\ phoneQueues' = [phoneQueues EXCEPT
                              ![k].requests = Append(@, r),
                              ![k].processing = TRUE]
         /\ workers' = IF spawn
                         THEN [workers EXCEPT ![w] = [FreeWorker EXCEPT !.pc = "loop",
                                                                        !.key = k]]
                         ELSE workers
         /\ busy' = IF spawn THEN w ELSE NoWorker
  /\ nextReq' = nextReq + 1
  /\ last' = [NoLast EXCEPT !.op = "request", !.number = number, !.count = count]
  /\ UNCHANGED <<variant, now, alive, resets, files, logCsv>>
  /\ UNCHANGED connVars

\* A request the handler answers with an error before it queues or generates
\* anything (status 400, 503, or in server.js the 500 of the catch block).
Refuse(number, count) ==
  /\ Idle
  /\ nextReq <= MaxReq
  /\ Refusal(variant, number, count) # ""
  /\ reqs' = [reqs EXCEPT ![nextReq] =
                [NoReq EXCEPT !.status = "rejected",
                              !.err = Refusal(variant, number, count)]]
  /\ nextReq' = nextReq + 1
  /\ last' = [NoLast EXCEPT !.op = "request", !.number = number, !.count = count]
  /\ UNCHANGED <<variant, now, alive, resets, phoneQueues, workers, files, logCsv, busy>>
  /\ UNCHANGED connVars

\* The head of the worker's while loop: leave when nothing is pending, else
\* take the oldest request and either reject it (not ready) or start its batch.
\* part_000 first rejects a request that is more than five minutes old and
\* goes on with the next one (expired: only a request that has waited through
\* a sleep can be, and only when REQUEST_TIMEOUT * 2 exceeds the five minutes,
\* or the wall clock jumps: the request's own timer removes it otherwise).
WorkerLoop(w, rm1, expired) ==
  /\ alive /\ busy = w
  /\ workers[w].pc \in {"loop", "wake"}
  /\ expired => /\ variant = "p000"
                /\ workers[w].pc = "wake"
                /\ phoneQueues[workers[w].key].requests # <<>>
  /\ LET k == workers[w].key
         q == phoneQueues[k].requests
     IN  IF expired
           THEN /\ phoneQueues' = [phoneQueues EXCEPT ![k].requests = Shift(q)[2]]
                /\ reqs' = [reqs EXCEPT ![Shift(q)[1]] =
                              IF @.status = "pending"
                                THEN [@ EXCEPT !.status = "rejected", !.err = "expired"]
                                ELSE @]
                /\ UNCHANGED <<workers, busy>>
                /\ NoConnChange
         ELSE IF q = <<>>
           THEN /\ phoneQueues' = [phoneQueues EXCEPT ![k].processing = FALSE]
                /\ workers' = [workers EXCEPT ![w] = FreeWorker]
                /\ busy' = NoWorker
                /\ UNCHANGED reqs
                /\ NoConnChange
           ELSE LET r == Shift(q)[1]
                    rest == Shift(q)[2]
                IN  /\ phoneQueues' = [phoneQueues EXCEPT ![k].requests = rest]
                    /\ IF NotReadyAtDrain(variant)
                         THEN /\ Settle(w, r, FALSE, "notReady", rest # <<>>, rm1, FALSE)
                         ELSE LET b == BeginSlot(variant,
                                         [workers[w] EXCEPT !.req = r, !.i = 0,
                                                            !.attempt = 1, !.codes = <<>>],
                                         reqs[r].count)
                              IN  /\ workers' = [workers EXCEPT ![w] = b.wk]
                                  /\ reqs' = CountCall(r, b.called)
                                  /\ busy' = BusyAfter(w, b.wk)
                                  /\ NoConnChange
  /\ WorkerFrame
  /\ UNCHANGED <<files, logCsv>>

\* sock.requestPairingCode returns a code.
CallReturn(w) ==
  /\ Idle
  /\ workers[w].pc = "call"
  /\ LET wk == workers[w]
         nw == SlotDone([wk EXCEPT !.codes = Append(@, "code")], reqs[wk.req].count)
     IN  /\ workers' = [workers EXCEPT ![w] = nw]
         /\ busy' = BusyAfter(w, nw)
  /\ WorkerFrame
  /\ NoConnChange
  /\ UNCHANGED <<phoneQueues, reqs, files, logCsv>>

\* sock.requestPairingCode throws.
CallThrow(w, rm1) ==
  /\ Idle
  /\ workers[w].pc = "call"
  /\ LET wk == [workers[w] EXCEPT !.threw = TRUE]
         r == wk.req
         cnt == reqs[r].count
         failed == [wk EXCEPT !.codes = Append(@, "failed")]
     IN  CASE variant = "p006" ->
              Settle(w, r, FALSE, "provider",
                     phoneQueues[wk.key].requests # <<>>, rm1, FALSE)
           [] variant = "p003" ->
              LET nw == AttemptFailed(wk, cnt) IN
                /\ workers' = [workers EXCEPT ![w] = nw]
                /\ busy' = BusyAfter(w, nw)
                /\ UNCHANGED reqs
                /\ NoConnChange
           [] OTHER ->
              LET b == IF wk.i < cnt - 1
                         THEN BeginSlot(variant, [failed EXCEPT !.i = @ + 1], cnt)
                         ELSE [wk |-> [failed EXCEPT !.pc = "save"],
                               called |-> FALSE]
              IN  /\ workers' = [workers EXCEPT ![w] = b.wk]
                  /\ reqs' = CountCall(r, b.called)
                  /\ busy' = BusyAfter(w, b.wk)
                  /\ NoConnChange
  /\ WorkerFrame
  /\ UNCHANGED <<phoneQueues, files, logCsv>>

\* await sleep(PAIR_DELAY) ends: the next slot.
DelayDone(w) ==
  /\ Idle
  /\ workers[w].pc = "delay"
  /\ LET wk == workers[w]
         b == BeginSlot(variant, [wk EXCEPT !.i = @ + 1, !.attempt = 1],
                        reqs[wk.req].count)
     IN  /\ workers' = [workers EXCEPT ![w] = b.wk]
         /\ reqs' = CountCall(wk.req, b.called)
         /\ busy' = BusyAfter(w, b.wk)
  /\ WorkerFrame
  /\ NoConnChange
  /\ UNCHANGED <<phoneQueues, files, logCsv>>

\* part_003: await sleep(backoff) ends: the next attempt at the same slot.
BackoffDone(w) ==
  /\ Idle
  /\ workers[w].pc = "backoff"
  /\ LET wk == workers[w]
         b == BeginSlot(variant, [wk EXCEPT !.attempt = @ + 1], reqs[wk.req].count)
     IN  /\ workers' = [workers EXCEPT ![w] = b.wk]
         /\ reqs' = CountCall(wk.req, b.called)
         /\ busy' = BusyAfter(w, b.wk)
  /\ WorkerFrame
  /\ NoConnChange
  /\ UNCHANGED <<phoneQueues, files, logCsv>>

\* The cooldown sleep between two requests ends: back to the loop head.
CooldownDone(w) ==
  /\ Idle
  /\ workers[w].pc = "cooldown"
  /\ workers' = [workers EXCEPT ![w].pc = "wake"]
  /\ busy' = w
  /\ WorkerFrame
  /\ NoConnChange
  /\ UNCHANGED <<phoneQueues, reqs, files, logCsv>>

(* --------------------------- code formatting --------------------------- *)
\* A text is a sequence of characters.  Two characters of a code, the
\* separator, and a line terminator (which '.' does not match).
CodeChars == {"A", "B", "-", "\n"}
LineTerminators == {"\n"}
RawCodes == UNION {[1..n -> CodeChars] : n \in 0..MaxCodeLen}

\* '.' of a regular expression without the s flag.
Dot(c) == c \notin LineTerminators

\* The length of the match of /.{1,4}/ at pos: the longest run of at most
\* four characters matched by '.' (0: no match at pos).
RunAt(s, pos) ==
  LET lens == {k \in 0..4 : /\ pos + k - 1 <= Len(s)
                             /\ \A j \in pos..(pos + k - 1) : Dot(s[j])}
  IN  CHOOSE k \in lens : \A k2 \in lens : k2 <= k

\* code.match(/.{1,4}/g) from pos on: the matches from left to right; the
\* search goes on after a match, and one character further where nothing
\* matches (<<>> stands for null).
RECURSIVE MatchAll(_, _)
MatchAll(s, pos) ==
  IF pos > Len(s) THEN <<>>
  ELSE LET k == RunAt(s, pos)
       IN  IF k = 0 THEN MatchAll(s, pos + 1)
           ELSE <<SubSeq(s, pos, pos + k - 1)>> \o MatchAll(s, pos + k)

\* chunks.join('-')
RECURSIVE Join(_)
Join(chunks) ==
  IF chunks = <<>> THEN <<>>
  ELSE IF Len(chunks) = 1 THEN chunks[1]
  ELSE chunks[1] \o <<"-">> \o Join(Tail(chunks))

\* The code handed on as it is.
Unformatted(code) == code

\* code.match(/.{1,4}/g)?.join('-') || code
FormatCode(code) ==
  LET m == MatchAll(code, 1)
  IN  IF m = <<>> \/ Join(m) = <<>> THEN code ELSE Join(m)

\* The provider's call returns a raw code and the code is formatted.
Format ==
  /\ last.op = "raw"
  /\ last' = [last EXCEPT !.op = "format", !.formatted = FormatCode(last.raw)]
  /\ UNCHANGED <<variant, now, alive, resets>>
  /\ UNCHANGED connVars
  /\ UNCHANGED queueVars

(* ------------------------------- part_005 ------------------------------ *)
\* part_005 has no queue: every POST /api/pair runs its own loop, kept here
\* in workers[r] for request r.  restartTimers counts the startSock calls
\* that wait in their await.

\* startSock after its await: a new socket.
StartSock005 ==
  /\ Idle
  /\ variant = "p005"
  /\ restartTimers > 0
  /\ FreeSocks # {}
  /\ LET s == CHOOSE x \in FreeSocks : \A y \in FreeSocks : x <= y IN
       /\ sock' = s
       /\ sockState' = [sockState EXCEPT ![s] = "connecting"]
  /\ restartTimers' = restartTimers - 1
  /\ sessionDir' = EnsureDir(sessionDir)
  /\ last' = NoLast
  /\ UNCHANGED <<variant, now, alive, socketReady, clearTimers, connecting,
                 reconnectAttempts, resets>>
  /\ UNCHANGED queueVars

\* connection.update with connection === "open".
Open005(s) ==
  /\ Idle
  /\ variant = "p005"
  /\ sockState[s] = "connecting"
  /\ sockState' = [sockState EXCEPT ![s] = "open"]
  /\ last' = [NoLast EXCEPT !.op = "open"]
  /\ UNCHANGED <<variant, now, alive, sock, socketReady, sessionDir, restartTimers,
                 clearTimers, connecting, reconnectAttempts, resets>>
  /\ UNCHANGED queueVars

\* connection.update with connection === "close": the switch on the reason.
Close005(s, err) ==
  /\ Idle
  /\ variant = "p005"
  /\ sockState[s] \in {"connecting", "open"}
  /\ sockState' = [sockState EXCEPT ![s] = "closed"]
  /\ LET reason == BoomStatusCode(err) IN
       /\ CASE reason = DisconnectReason.badSession ->
                 /\ sessionDir' = "absent"
                 /\ restartTimers' = restartTimers + 1
                 /\ alive' = alive
            [] reason = DisconnectReason.loggedOut ->
                 /\ sessionDir' = "absent"
                 /\ restartTimers' = restartTimers
                 /\ alive' = FALSE
            [] OTHER ->
                 /\ sessionDir' = sessionDir
                 /\ restartTimers' = restartTimers + 1
                 /\ alive' = alive
       /\ last' = [NoLast EXCEPT !.op = "close", !.reason = reason]
  /\ restartTimers' <= MaxTimers
  /\ UNCHANGED <<variant, now, sock, socketReady, clearTimers, connecting,
                 reconnectAttempts, resets>>
  /\ UNCHANGED queueVars

\* The handler answers request r and calls clearSessionAndRestart, which
\* removes the session directory and ends with process.exit(0).
Answer005(r, ok, err) ==
  /\ reqs' = [reqs EXCEPT ![r] = [@ EXCEPT !.status = IF ok THEN "resolved"
                                                            ELSE "rejected",
                                            !.err = err]]
  /\ sessionDir' = "absent"
  /\ alive' = FALSE

\* POST /api/pair up to its first await.
Pair005(number, count) ==
  /\ Idle
  /\ variant = "p005"
  /\ nextReq <= MaxReq
  /\ LET r == nextReq
         phone == DigitsOnly(PhoneNumber[number])
         cnt == Min(count, MAX_COUNT)
         req == [NoReq EXCEPT !.status = "pending", !.arg = phone,
                              !.phone = NumberOf(phone), !.count = cnt]
     IN  IF phone = <<>>
           THEN /\ reqs' = [reqs EXCEPT ![r] = [NoReq EXCEPT !.status = "rejected",
                                                             !.err = "invalidPhone"]]
                /\ UNCHANGED <<workers, sessionDir, alive>>
         ELSE IF cnt <= 0
           THEN /\ Answer005(r, TRUE, "") /\ UNCHANGED workers
         ELSE IF sock = 0
           THEN /\ Answer005(r, FALSE, "provider") /\ UNCHANGED workers
         ELSE /\ reqs' = [reqs EXCEPT ![r] = [req EXCEPT !.called = TRUE]]
              /\ workers' = [workers EXCEPT ![r] = [FreeWorker EXCEPT !.pc = "call",
                                                                     !.req = r]]
              /\ UNCHANGED <<sessionDir, alive>>
  /\ nextReq' = nextReq + 1
  /\ last' = [NoLast EXCEPT !.op = "request", !.number = number, !.count = count]
  /\ UNCHANGED <<variant, now, sock, sockState, socketReady, restartTimers, clearTimers,
                 connecting, reconnectAttempts, resets, phoneQueues, files, logCsv, busy>>

\* sock.requestPairingCode returns: the code is pushed, then the sleep, or
\* the answer.
CallReturn005(r) ==
  /\ Idle
  /\ variant = "p005"
  /\ workers[r].pc = "call"
  /\ LET wk == [workers[r] EXCEPT !.codes = Append(@, "code")] IN
       IF wk.i < reqs[r].count - 1
         THEN /\ workers' = [workers EXCEPT ![r] = [wk EXCEPT !.pc = "delay"]]
              /\ UNCHANGED <<reqs, sessionDir, alive>>
         ELSE /\ workers' = [workers EXCEPT ![r] = [wk EXCEPT !.pc = "done"]]
              /\ Answer005(r, TRUE, "")
  /\ last' = NoLast
  /\ UNCHANGED <<variant, now, sock, sockState, socketReady, restartTimers, clearTimers,
                 connecting, reconnectAttempts, resets, phoneQueues, nextReq, files,
                 logCsv, busy>>

\* sock.requestPairingCode throws: the catch block.
CallThrow005(r) ==
  /\ Idle
  /\ variant = "p005"
  /\ workers[r].pc = "call"
  /\ workers' = [workers EXCEPT ![r] = [@ EXCEPT !.pc = "done", !.threw = TRUE]]
  /\ Answer005(r, FALSE, "provider")
  /\ last' = NoLast
  /\ UNCHANGED <<variant, now, sock, sockState, socketReady, restartTimers, clearTimers,
                 connecting, reconnectAttempts, resets, phoneQueues, nextReq, files,
                 logCsv, busy>>

\* The sleep of PAIR_DELAY ends: the call for the next index.
DelayDone005(r) ==
  /\ Idle
  /\ variant = "p005"
  /\ workers[r].pc = "delay"
  /\ workers' = [workers EXCEPT ![r] = [@ EXCEPT !.pc = "call", !.i = @ + 1]]
  /\ last' = NoLast
  /\ UNCHANGED <<variant, now, alive, resets, phoneQueues, reqs, nextReq, files,
                 logCsv, busy>>
  /\ UNCHANGED connVars

\* The timer of generatePairingCode fires after REQUEST_TIMEOUT while the
\* call is awaited: the promise is rejected ('Request timeout') and the loop
\* of processQueue goes on as after a throw; the call itself is still
\* outstanding.
CallTimeout(w) ==
  /\ Idle
  /\ variant = "p000"
  /\ workers[w].pc = "call"
  /\ LET wk == [workers[w] EXCEPT !.threw = TRUE]
         r == wk.req
         cnt == reqs[r].count
         failed == [wk EXCEPT !.codes = Append(@, "failed")]
         b == IF wk.i < cnt - 1
                THEN BeginSlot(variant, [failed EXCEPT !.i = @ + 1], cnt)
                ELSE [wk |-> [failed EXCEPT !.pc = "save"], called |-> FALSE]
     IN  /\ workers' = [workers EXCEPT ![w] = b.wk]
         /\ reqs' = [CountCall(r, b.called) EXCEPT ![r].abandoned = @ + 1]
         /\ busy' = BusyAfter(w, b.wk)
  /\ WorkerFrame
  /\ NoConnChange
  /\ UNCHANGED <<phoneQueues, files, logCsv>>

\* A call that was given up on returns or throws: clearTimeout, and the
\* resolve or reject of a promise that is settled already.
AbandonedCallEnds(r) ==
  /\ Idle
  /\ variant = "p000"
  /\ reqs[r].abandoned > 0
  /\ reqs' = [reqs EXCEPT ![r].abandoned = @ - 1]
  /\ last' = NoLast
  /\ UNCHANGED <<variant, now, alive, resets, phoneQueues, workers, nextReq, files,
                 logCsv, busy>>
  /\ UNCHANGED connVars

(* ------------------ part_000: request age and timers ------------------- *)

\* The moments the clock takes: the start, one millisecond later, the first
\* moment a request of the start is past the expiry age, the moment the
\* timer of such a request is due, and one millisecond after that.
Instants == {0, 1, expiryAge + 1, REQUEST_TIMEOUT * 2, REQUEST_TIMEOUT * 2 + 1}

\* A test that finds no request too old.
NeverExpired(ts) == FALSE

\* Date.now() - timestamp > 300000.
IsExpired(ts) == now - ts > expiryAge

\* The moment the timer of request r is due.
TimerDue(r) == reqs[r].ts + REQUEST_TIMEOUT * 2

\* requestQueue.findIndex(req => req.timestamp === request.timestamp), from
\* 1 (0: none): the first pending request with the timestamp of request r.
FindIndex(q, r) ==
  LET same == {j \in 1..Len(q) : reqs[q[j]].ts = reqs[r].ts} IN
    IF same = {} THEN 0
    ELSE CHOOSE j \in same : \A k \in same : j <= k

\* requestQueue.splice(index, 1).
Splice(q, index) == SubSeq(q, 1, index - 1) \o SubSeq(q, index + 1, Len(q))

\* Time passes while the event loop is idle, up to the next instant, and
\* not beyond the moment a pending request timer is due.
Tick ==
  /\ Idle
  /\ \E t \in Instants :
       /\ t > now
       /\ \A r \in Reqs : reqs[r].timer => t <= TimerDue(r)
       /\ now' = t
  /\ last' = NoLast
  /\ UNCHANGED <<variant, alive, resets>>
  /\ UNCHANGED connVars
  /\ UNCHANGED queueVars

\* The timer that queuePairingRequest set for request r fires: a pending
\* request with r's timestamp is removed and r's promise is rejected.  The
\* timers have one duration, so they fire in the order they were set.
RequestTimerFire(r) ==
  /\ Idle
  /\ variant = "p000"
  /\ reqs[r].timer
  /\ now >= TimerDue(r)
  /\ \A r0 \in Reqs : r0 < r => ~reqs[r0].timer
  /\ LET q == phoneQueues[QueueKey(variant, reqs[r].phone)].requests
         index == FindIndex(q, r)
     IN  IF index > 0
           THEN /\ phoneQueues' = [phoneQueues EXCEPT
                                     ![QueueKey(variant, reqs[r].phone)].requests =
                                        Splice(q, index)]
                /\ reqs' = [reqs EXCEPT
                              ![r] = IF @.status = "pending"
                                       THEN [@ EXCEPT !.status = "rejected",
                                                      !.err = "timeout",
                                                      !.timer = FALSE]
                                       ELSE [@ EXCEPT !.timer = FALSE]]
           ELSE /\ reqs' = [reqs EXCEPT ![r].timer = FALSE]
                /\ UNCHANGED phoneQueues
  /\ last' = [NoLast EXCEPT !.op = "timer"]
  /\ UNCHANGED <<variant, now, alive, resets, workers, nextReq, files, logCsv, busy>>
  /\ UNCHANGED connVars

(* ------------------- server.js generatePairingCodes -------------------- *)

FreeWorkers == {w \in Workers : workers[w].pc = "free"}

\* A run that ends without its finally block.
GenSettleNoCleanup(w, ok, err) ==
  /\ reqs' = [reqs EXCEPT ![workers[w].req] =
                [@ EXCEPT !.status = IF ok THEN "resolved" ELSE "rejected",
                          !.err = err]]
  /\ clearTimers' = clearTimers
  /\ workers' = [workers EXCEPT ![w] = FreeWorker]

\* generatePairingCodes leaves its try block, by return or by throw: the
\* finally block sets the timer of clearSessionAndRestart and the handler
\* answers.
GenSettle(w, ok, err) ==
  /\ reqs' = [reqs EXCEPT ![workers[w].req] =
                [@ EXCEPT !.status = IF ok THEN "resolved" ELSE "rejected",
                          !.err = err]]
  /\ clearTimers' = clearTimers + 1
  /\ clearTimers' <= MaxTimers
  /\ workers' = [workers EXCEPT ![w] = FreeWorker]

\* The head of the for loop at index wk.i: the connection is tested, then
\* sock.requestPairingCode is called.
GenNext(w, wk) ==
  IF sock = 0 \/ ~socketReady
    THEN GenSettle(w, FALSE, "connectionLost")
    ELSE /\ workers' = [workers EXCEPT ![w] = [wk EXCEPT !.pc = "genCall"]]
         /\ UNCHANGED <<reqs, clearTimers>>

GenFrame ==
  /\ last' = NoLast
  /\ UNCHANGED <<variant, now, alive, sock, sockState, socketReady, sessionDir,
                 restartTimers, connecting, reconnectAttempts, resets,
                 phoneQueues, nextReq, files, logCsv, busy>>

\* POST /api/generate of server.js up to the first await: the tests at the
\* head of generatePairingCodes pass and the first call is made.
Generate(number, count) ==
  /\ Idle
  /\ variant = "server"
  /\ nextReq <= MaxReq
  /\ Refusal(variant, number, count) = ""
  /\ FreeWorkers # {}
  /\ LET r == nextReq
         arg == PhoneUsed(variant, number)
         w == CHOOSE x \in FreeWorkers : \A y \in FreeWorkers : x <= y
     IN  /\ reqs' = [reqs EXCEPT ![r] =
                       [NoReq EXCEPT !.status = "pending", !.phone = NumberOf(arg),
                                     !.arg = arg, !.count = count, !.called = TRUE]]
         /\ workers' = [workers EXCEPT ![w] =
                          [FreeWorker EXCEPT !.pc = "genCall", !.req = r]]
  /\ nextReq' = nextReq + 1
  /\ last' = [NoLast EXCEPT !.op = "request", !.number = number, !.count = count]
  /\ UNCHANGED <<variant, now, alive, resets, phoneQueues, files, logCsv, busy>>
  /\ UNCHANGED connVars

\* sock.requestPairingCode returns: the code is pushed; sleep(1000) follows
\* unless this was the last index, where the codes are returned.
GenCallReturn(w) ==
  /\ Idle
  /\ workers[w].pc = "genCall"
  /\ LET wk == [workers[w] EXCEPT !.codes = Append(@, "code")] IN
       IF wk.i < reqs[wk.req].count - 1
         THEN /\ workers' = [workers EXCEPT ![w] = [wk EXCEPT !.pc = "genDelay"]]
              /\ UNCHANGED <<reqs, clearTimers>>
         ELSE GenSettle(w, TRUE, "")
  /\ GenFrame

\* sock.requestPairingCode throws: with a message that has 'rate' or 'limit'
\* in it sleep(5000) follows and the index is tried again; any other error
\* ends the run.
GenCallThrow(w, rateLimited) ==
  /\ Idle
  /\ workers[w].pc = "genCall"
  /\ IF rateLimited
       THEN /\ workers' = [workers EXCEPT ![w].pc = "rateWait", ![w].threw = TRUE]
            /\ UNCHANGED <<reqs, clearTimers>>
       ELSE GenSettle(w, FALSE, "provider")
  /\ GenFrame

\* sleep(1000) ends: the next index.
GenDelayDone(w) ==
  /\ Idle
  /\ workers[w].pc = "genDelay"
  /\ GenNext(w, [workers[w] EXCEPT !.i = @ + 1])
  /\ GenFrame

\* sleep(5000) ends: i-- and continue, so the same index again (the code
\* counts no retries).
GenRetry(w) ==
  /\ Idle
  /\ workers[w].pc = "rateWait"
  /\ GenNext(w, [workers[w] EXCEPT !.i = (@ - 1) + 1])
  /\ GenFrame

(* --------------------------- result persister -------------------------- *)

\* The name fs.writeFileSync writes the batch under.
WriteTarget(v) == IF UsesTempFile(v) THEN "tmp" ELSE "final"

\* fs.writeFileSync starts: part of the JSON is on disk.
SaveWrite(w) ==
  /\ alive /\ busy = w
  /\ workers[w].pc = "save"
  /\ LET r == workers[w].req IN
       /\ files' = IF WriteTarget(variant) = "tmp"
                     THEN [files EXCEPT ![r].tmp = "partial"]
                     ELSE [files EXCEPT ![r].final = "partial"]
  /\ workers' = [workers EXCEPT ![w].pc = "writing"]
  /\ WorkerFrame
  /\ NoConnChange
  /\ UNCHANGED <<phoneQueues, reqs, logCsv, busy>>

\* fs.writeFileSync returns (the whole JSON is on disk) or throws.
SaveWritten(w, throws, rm1, rm2) ==
  /\ alive /\ busy = w
  /\ workers[w].pc = "writing"
  /\ LET wk == workers[w]
         r == wk.req
         more == phoneQueues[wk.key].requests # <<>>
     IN  /\ IF throws
              THEN /\ Settle(w, r, FALSE, "persist", more, rm1, FALSE)
                   /\ UNCHANGED files
              ELSE IF UsesTempFile(variant)
                THEN /\ files' = [files EXCEPT ![r].tmp = "complete"]
                     /\ workers' = [workers EXCEPT ![w].pc = "rename"]
                     /\ UNCHANGED <<reqs, busy>>
                     /\ NoConnChange
                ELSE /\ files' = [files EXCEPT ![r].final = "complete"]
                     /\ Settle(w, r, TRUE, "", more, rm1, rm2)
  /\ WorkerFrame
  /\ UNCHANGED <<phoneQueues, logCsv>>

\* fs.renameSync(tmp, filepath) returns or throws.
SaveRename(w, throws, rm1) ==
  /\ alive /\ busy = w
  /\ workers[w].pc = "rename"
  /\ LET wk == workers[w]
         r == wk.req
         more == phoneQueues[wk.key].requests # <<>>
     IN  /\ IF throws
              THEN /\ Settle(w, r, FALSE, "persist", more, rm1, FALSE)
                   /\ UNCHANGED files
              ELSE /\ files' = [files EXCEPT ![r].final = files[r].tmp,
                                             ![r].tmp = "absent"]
                   /\ IF WritesLogCsv(variant)
                        THEN /\ workers' = [workers EXCEPT ![w].pc = "log"]
                             /\ UNCHANGED <<reqs, busy>>
                             /\ NoConnChange
                        ELSE Settle(w, r, TRUE, "", more, rm1, FALSE)
  /\ WorkerFrame
  /\ UNCHANGED <<phoneQueues, logCsv>>

\* log.csv: the header is written when the file is missing, then
\* fs.appendFileSync adds the row, or throws.
SaveLog(w, throws) ==
  /\ alive /\ busy = w
  /\ workers[w].pc = "log"
  /\ LET wk == workers[w]
         r == wk.req
         more == phoneQueues[wk.key].requests # <<>>
     IN  /\ logCsv' = [exists |-> TRUE,
                       headers |-> IF logCsv.exists THEN logCsv.headers
                                                    ELSE logCsv.headers + 1,
                       rows |-> IF throws THEN logCsv.rows ELSE Append(logCsv.rows, r)]
         /\ Settle(w, r, ~throws, IF throws THEN "persist" ELSE "", more, FALSE, FALSE)
  /\ WorkerFrame
  /\ UNCHANGED <<phoneQueues, files>>

\* The process dies (power loss, kill -9): nothing runs afterwards.
Crash ==
  /\ alive
  /\ alive' = FALSE
  /\ last' = NoLast
  /\ UNCHANGED <<variant, now, resets>>
  /\ UNCHANGED connVars
  /\ UNCHANGED queueVars

Init ==
  /\ variant \in Variants
  /\ alive = TRUE
  /\ sock = 0
  /\ sockState = [s \in Socks |-> "none"]
  /\ socketReady = FALSE
  /\ sessionDir \in {"empty", "creds"}
  /\ restartTimers = 1
  /\ clearTimers = 0
  /\ connecting = FALSE
  /\ reconnectAttempts = 0
  /\ resets = 0
  /\ phoneQueues = [k \in Numbers |-> [requests |-> <<>>, processing |-> FALSE]]
  /\ workers = [w \in Workers |-> FreeWorker]
  /\ reqs = [r \in Reqs |-> NoReq]
  /\ nextReq = 1
  /\ files = [r \in Reqs |-> [tmp |-> "absent", final |-> "absent"]]
  /\ logCsv = [exists |-> FALSE, headers |-> 0, rows |-> <<>>]
  /\ busy = NoWorker
  /\ now = 0
  /\ last = NoLast

(* ---------------- specification of the connection manager -------------- *)
\* The socket life cycle alone: no pairing request is made.
NextConn ==
  \/ \E throws \in BOOLEAN : StartSock(throws)
  \/ \E s \in Socks : SockOpen(s)
  \/ \E s \in Socks, err \in Errors, rmThrows \in BOOLEAN : SockClose(s, err, rmThrows)
  \/ \E s \in Socks : CredsUpdate(s)
  \/ \E rmThrows \in BOOLEAN : ApiReset(rmThrows)

SpecConn == Init /\ [][NextConn]_vars

(* ------------------- specification of the request queue ---------------- *)
\* The queue and its workers next to a connection that is created once the
\* previous socket has closed, opens, and closes for any reason.
InitQueue == Init /\ variant \in QueueVariants /\ sessionDir = "creds"

Reconnect ==
  /\ LiveSocks = {}
  /\ StartSock(FALSE)

Disconnect(s, err) ==
  /\ sockState[s] = "open"
  /\ SockClose(s, err, FALSE)

\* All but the last of the MaxReq requests, for any phone.
Submit(phone, count) ==
  /\ nextReq < MaxReq
  /\ Enqueue(phone, count)

Environment ==
  \/ Reconnect
  \/ \E s \in Socks : SockOpen(s)
  \/ \E s \in Socks, err \in Errors : Disconnect(s, err)
  \/ \E rmThrows \in BOOLEAN : ClearTimerFire(rmThrows)

NextQueue ==
  \/ Environment
  \/ \E phone \in Phones, count \in RawCounts : Submit(phone, count)
  \/ \E w \in Workers, rm1 \in BOOLEAN, expired \in BOOLEAN : WorkerLoop(w, rm1, expired)
  \/ \E w \in Workers : CallReturn(w)
  \/ \E w \in Workers, rm1 \in BOOLEAN : CallThrow(w, rm1)
  \/ \E w \in Workers : DelayDone(w)
  \/ \E w \in Workers : BackoffDone(w)
  \/ \E w \in Workers : CooldownDone(w)
  \/ \E w \in Workers : SaveWrite(w)
  \/ \E w \in Workers, throws \in BOOLEAN, rm1 \in BOOLEAN, rm2 \in BOOLEAN :
        SaveWritten(w, throws, rm1, rm2)
  \/ \E w \in Workers, throws \in BOOLEAN, rm1 \in BOOLEAN : SaveRename(w, throws, rm1)
  \/ \E w \in Workers, throws \in BOOLEAN : SaveLog(w, throws)

SpecQueue == InitQueue /\ [][NextQueue]_vars

(* --------------- specification of one phone's request queue ------------ *)
\* MaxReq requests, all for the same phone.
InitOrder == InitQueue /\ variant \in PhoneQueueVariants

SubmitSamePhone(count) == Enqueue(1, count)

NextOrder ==
  \/ Environment
  \/ \E count \in 1..MAX_COUNT : SubmitSamePhone(count)
  \/ \E w \in Workers, rm1 \in BOOLEAN, expired \in BOOLEAN : WorkerLoop(w, rm1, expired)
  \/ \E w \in Workers : CallReturn(w)
  \/ \E w \in Workers, rm1 \in BOOLEAN : CallThrow(w, rm1)
  \/ \E w \in Workers : DelayDone(w)
  \/ \E w \in Workers : BackoffDone(w)
  \/ \E w \in Workers : CooldownDone(w)
  \/ \E w \in Workers : SaveWrite(w)
  \/ \E w \in Workers, throws \in BOOLEAN, rm1 \in BOOLEAN, rm2 \in BOOLEAN :
        SaveWritten(w, throws, rm1, rm2)
  \/ \E w \in Workers, throws \in BOOLEAN, rm1 \in BOOLEAN : SaveRename(w, throws, rm1)
  \/ \E w \in Workers, throws \in BOOLEAN : SaveLog(w, throws)

SpecOrder == InitOrder /\ [][NextOrder]_vars

(* ---------------- specification of the queue under crashes ------------- *)
NextCrash ==
  \/ NextQueue
  \/ Crash

SpecCrash == InitQueue /\ [][NextCrash]_vars

(* -------------------- specification of code formatting ----------------- *)
\* Every text of at most MaxCodeLen characters as the raw code.
InitRest ==
  /\ alive = TRUE
  /\ sock = 0
  /\ sockState = [s \in Socks |-> "none"]
  /\ socketReady = FALSE
  /\ restartTimers = 1
  /\ clearTimers = 0
  /\ connecting = FALSE
  /\ reconnectAttempts = 0
  /\ resets = 0
  /\ phoneQueues = [k \in Numbers |-> [requests |-> <<>>, processing |-> FALSE]]
  /\ workers = [w \in Workers |-> FreeWorker]
  /\ reqs = [r \in Reqs |-> NoReq]
  /\ nextReq = 1
  /\ files = [r \in Reqs |-> [tmp |-> "absent", final |-> "absent"]]
  /\ logCsv = [exists |-> FALSE, headers |-> 0, rows |-> <<>>]
  /\ busy = NoWorker
  /\ now = 0

InitFormat ==
  /\ InitRest
  /\ variant = "p000"
  /\ sessionDir = "creds"
  /\ \E raw \in RawCodes : last = [NoLast EXCEPT !.op = "raw", !.raw = raw]

NextFormat == Format

SpecFormat == InitFormat /\ [][NextFormat]_vars

(* ------------------------ specification of part_005 -------------------- *)
Init005 ==
  /\ InitRest
  /\ variant = "p005"
  /\ sessionDir \in {"absent", "creds"}
  /\ last = NoLast

Next005 ==
  \/ StartSock005
  \/ \E s \in Socks : Open005(s)
  \/ \E s \in Socks, err \in Errors : Close005(s, err)
  \/ \E number \in Numbers, count \in RawCounts : Pair005(number, count)
  \/ \E r \in Reqs : CallReturn005(r)
  \/ \E r \in Reqs : CallThrow005(r)
  \/ \E r \in Reqs : DelayDone005(r)

Spec005 == Init005 /\ [][Next005]_vars

(* -------------- specification of request ages in part_000 -------------- *)
\* part_000 with the clock: requests age, their timers fire when due, and
\* the worker rejects at drain what is older than the expiry age.  The file
\* system does not fail here.
InitAge == Init /\ variant = "p000" /\ sessionDir = "creds"

\* The head of the worker's loop, the age test made with the clock.
Drain(w) ==
  WorkerLoop(w, FALSE,
             /\ phoneQueues[workers[w].key].requests # <<>>
             /\ IsExpired(reqs[Head(phoneQueues[workers[w].key].requests)].ts))

NextAge ==
  \/ Reconnect
  \/ \E s \in Socks : SockOpen(s)
  \/ \E s \in Socks, err \in Errors : Disconnect(s, err)
  \/ Tick
  \/ \E r \in Reqs : RequestTimerFire(r)
  \/ \E phone \in Phones, count \in 1..MAX_COUNT : Submit(phone, count)
  \/ \E w \in Workers : Drain(w)
  \/ \E w \in Workers : CallReturn(w)
  \/ \E w \in Workers : CallThrow(w, FALSE)
  \/ \E w \in Workers : DelayDone(w)
  \/ \E w \in Workers : CooldownDone(w)
  \/ \E w \in Workers : SaveWrite(w)
  \/ \E w \in Workers : SaveWritten(w, FALSE, FALSE, FALSE)
  \/ \E w \in Workers : SaveRename(w, FALSE, FALSE)

SpecAge == InitAge /\ [][NextAge]_vars

(* ---------------- specification of the request handlers ---------------- *)
(* ------------ specification of the call timeout in part_000 ------------ *)
\* part_000 with the timer of generatePairingCode; the clock stands still
\* (no request ages) and the file system does not fail.
NextTimeout ==
  \/ Reconnect
  \/ \E s \in Socks : SockOpen(s)
  \/ \E s \in Socks, err \in Errors : Disconnect(s, err)
  \/ \E phone \in Phones, count \in 1..MAX_COUNT : Submit(phone, count)
  \/ \E w \in Workers : WorkerLoop(w, FALSE, FALSE)
  \/ \E w \in Workers : CallReturn(w)
  \/ \E w \in Workers : CallThrow(w, FALSE)
  \/ \E w \in Workers : CallTimeout(w)
  \/ \E r \in Reqs : AbandonedCallEnds(r)
  \/ \E w \in Workers : DelayDone(w)
  \/ \E w \in Workers : CooldownDone(w)
  \/ \E w \in Workers : SaveWrite(w)
  \/ \E w \in Workers : SaveWritten(w, FALSE, FALSE, FALSE)
  \/ \E w \in Workers : SaveRename(w, FALSE, FALSE)

SpecTimeout == InitAge /\ [][NextTimeout]_vars

\* Requests with every phone text of the model, accepted or answered with an
\* error by the handler, in the variants that queue per phone, in part_000
\* and in server.js.
InputVariants == {"server", "p000", "p003", "p004"}
\* One phone text of each shape: plain, formatted, too short, without a digit.
InputNumbers == (Numbers \ Phones) \cup {1}
\* The file system does not fail and no request expires here.
InitInput == Init /\ variant \in InputVariants /\ sessionDir = "creds"

\* All but the last of the MaxReq requests.
Run(number, count) ==
  /\ nextReq < MaxReq
  /\ Generate(number, count)

Reject(number, count) ==
  /\ nextReq < MaxReq
  /\ Refuse(number, count)

NextInput ==
  \/ Environment
  \/ \E number \in InputNumbers, count \in 1..MAX_COUNT : Submit(number, count)
  \/ \E number \in InputNumbers, count \in 1..MAX_COUNT : Run(number, count)
  \/ \E number \in InputNumbers, count \in 1..MAX_COUNT : Reject(number, count)
  \/ \E w \in Workers : WorkerLoop(w, FALSE, FALSE)
  \/ \E w \in Workers : CallReturn(w)
  \/ \E w \in Workers : CallThrow(w, FALSE)
  \/ \E w \in Workers : DelayDone(w)
  \/ \E w \in Workers : BackoffDone(w)
  \/ \E w \in Workers : CooldownDone(w)
  \/ \E w \in Workers : SaveWrite(w)
  \/ \E w \in Workers : SaveWritten(w, FALSE, FALSE, FALSE)
  \/ \E w \in Workers : SaveRename(w, FALSE, FALSE)
  \/ \E w \in Workers : SaveLog(w, FALSE)
  \/ \E w \in Workers : GenCallReturn(w)
  \/ \E w \in Workers, rateLimited \in BOOLEAN : GenCallThrow(w, rateLimited)
  \/ \E w \in Workers : GenDelayDone(w)
  \/ \E w \in Workers : GenRetry(w)

SpecInput == InitInput /\ [][NextInput]_vars

(* ------------- specification of server.js generatePairingCodes --------- *)
\* server.js alone: its runs of generatePairingCodes next to a connection
\* whose timers fire whenever they are due, whatever the socket's state.
InitGen == Init /\ variant = "server"

\* The phone texts submitted: a formatted one and one that is too short.
GenNumbers == {3, 4}

\* A timer of the generator fires: sleep(1000) or sleep(5000) ends.
GenWake(w) == GenDelayDone(w) \/ GenRetry(w)

\* The awaited sock.requestPairingCode settles.
GenCallEnds(w) ==
  \/ GenCallReturn(w)
  \/ \E rateLimited \in BOOLEAN : GenCallThrow(w, rateLimited)

NextGen ==
  \/ \E throws \in BOOLEAN : StartSock(throws)
  \/ \E s \in Socks : SockOpen(s)
  \/ \E s \in Socks, err \in Errors, rmThrows \in BOOLEAN : SockClose(s, err, rmThrows)
  \/ \E s \in Socks : CredsUpdate(s)
  \/ \E rmThrows \in BOOLEAN : ClearTimerFire(rmThrows)
  \/ \E number \in GenNumbers, count \in 1..MAX_COUNT : Run(number, count)
  \/ \E number \in GenNumbers, count \in 1..MAX_COUNT : Reject(number, count)
  \/ \E w \in Workers : GenCallEnds(w)
  \/ \E w \in Workers : GenWake(w)

SpecGen == InitGen /\ [][NextGen]_vars

\* Node.js runs every timer that is due and every awaited call settles.
FairGen ==
  \A w \in Workers : WF_vars(GenCallEnds(w)) /\ WF_vars(GenWake(w))

SpecGenFair == SpecGen /\ FairGen

(* ------------------------------ properties ----------------------------- *)

Range(q) == {q[j] : j \in 1..Len(q)}
Settled(r) == reqs[r].status \in {"resolved", "rejected"}

\* The workers draining the queue of key k.
WorkersOf(k) == {w \in Workers : workers[w].pc # "free" /\ workers[w].key = k}

\* This step is queuePairingRequest(phone, ...) making request r.
EnqueueStep(r, phone) ==
  /\ nextReq = r
  /\ nextReq' = r + 1
  /\ reqs'[r].phone = phone

\* This step takes request r from the queue of key k.
DequeueStep(r, k) ==
  /\ r \in Range(phoneQueues[k].requests)
  /\ r \notin Range(phoneQueues'[k].requests)

\* This step invokes sock.requestPairingCode for request r.
CallStep(r) ==
  \E w \in Workers : /\ workers'[w].pc = "call"
                     /\ workers'[w].req = r
                     /\ workers'[w] # workers[w]

\* This step is the close handler of a socket.
CloseStep == \E s \in Socks : sockState[s] # "closed" /\ sockState'[s] = "closed"

\* This step is the catch block of startSock / initializeSocket.
InitFailedStep == restartTimers > 0 /\ last'.op = "initFailed"

(* C1: in part_003 and part_004 at most one worker loop drains a phone's   *)
(* queue at any time, and an enqueue made while a worker is active for the *)
(* phone only appends the request to the pending sequence: no worker is    *)
(* started or changed.                                                     *)
C1_OneWorker ==
  variant \in {"p003", "p004"} =>
    \A k \in Phones : Cardinality(WorkersOf(k)) <= 1

C1_EnqueueAppends ==
  \A r \in Reqs, k \in Phones :
    (variant \in {"p003", "p004"} /\ EnqueueStep(r, k) /\ WorkersOf(k) # {}) =>
      /\ phoneQueues'[k] = [phoneQueues[k] EXCEPT !.requests = Append(@, r)]
      /\ workers' = workers

C1_SingleFlight == []C1_OneWorker /\ [][C1_EnqueueAppends]_vars

\* Request 2 was enqueued while the worker of its phone was in the batch of
\* request 1, and waits.
C1_Witness ==
  /\ variant \in {"p003", "p004"}
  /\ \E k \in Phones : /\ workers[k].pc = "call"
                       /\ workers[k].req = 1
                       /\ phoneQueues[k].requests = <<2>>
                       /\ Cardinality(WorkersOf(k)) = 1

(* C2: requests of one phone are dequeued in the order they were submitted *)
(* (the request taken is older than every request left), and once          *)
(* requestPairingCode has been called for a request no call is made for an *)
(* older request of the same phone.                                        *)
C2_Fifo ==
  \A r \in Reqs, k \in Phones :
    DequeueStep(r, k) => \A x \in Range(phoneQueues'[k].requests) : r < x

C2_NoInterleaving ==
  \A r1 \in Reqs, r2 \in Reqs :
    (/\ r1 < r2
     /\ reqs'[r2].status # "none"
     /\ reqs'[r1].phone = reqs'[r2].phone
     /\ CallStep(r1)) => ~reqs'[r2].called

C2_SamePhoneOrder == [][C2_Fifo /\ C2_NoInterleaving]_vars

\* Request 2 is in a provider call, request 1 (called before) is settled and
\* request 3 still waits behind it.
C2_Witness ==
  \E k \in Phones : /\ workers[k].pc = "call"
                    /\ workers[k].req = 2
                    /\ reqs[1].called /\ Settled(1)
                    /\ reqs[1].phone = reqs[2].phone
                    /\ phoneQueues[k].requests = <<3>>

(* C3 as stated: in part_003 and part_000 a request dequeued while the     *)
(* connection is not open (sock unset or the ready flag false) is rejected *)
(* with the not-ready error.                                               *)
C3_NotReadyRejects ==
  [][\A r \in Reqs, k \in Phones :
       (/\ variant \in {"p003", "p000"}
        /\ DequeueStep(r, k)
        /\ (sock = 0 \/ ~socketReady)) =>
         (reqs'[r].status = "rejected" /\ reqs'[r].err = "notReady")]_vars

\* No provider call was made for request r, nothing of it is on disk and it
\* is in no queue and with no worker.
C3_Untouched(r) ==
  /\ ~reqs[r].called
  /\ files[r] = [tmp |-> "absent", final |-> "absent"]
  /\ r \notin Range(logCsv.rows)
  /\ \A k \in Phones : r \notin Range(phoneQueues[k].requests)
  /\ \A w \in Workers : workers[w].req # r

(* C3 amended: in part_003 and part_000 a request dequeued while the       *)
(* connection is not open is rejected at once: with the not-ready error    *)
(* or, in part_000 when it is more than five minutes old, with the expired *)
(* error, which is checked first.  A request rejected either way had no    *)
(* requestPairingCode call, has nothing persisted and is never queued      *)
(* again.                                                                  *)
C3_RejectedAtDrain ==
  \A r \in Reqs, k \in Phones :
    (/\ variant \in {"p003", "p000"}
     /\ DequeueStep(r, k)
     /\ (sock = 0 \/ ~socketReady)) =>
      /\ reqs'[r].status = "rejected"
      /\ reqs'[r].err \in {"notReady", "expired"}
      /\ reqs'[r].err = "expired" => variant = "p000"

C3_StaysUntouched ==
  \A r \in Reqs :
    (/\ variant \in {"p003", "p000"}
     /\ reqs[r].status = "rejected"
     /\ reqs[r].err \in {"notReady", "expired"}) => C3_Untouched(r)

C3_NotReadyAtDrain == []C3_StaysUntouched /\ [][C3_RejectedAtDrain]_vars

\* Request 2 waited behind request 1, the connection closed, and the worker
\* has just taken request 2 and rejected it as not ready.
C3_Witness ==
  /\ variant \in {"p003", "p000"}
  /\ reqs[2].status = "rejected" /\ reqs[2].err = "notReady"
  /\ Settled(1) /\ reqs[1].phone = reqs[2].phone
  /\ ~socketReady
  /\ C3_Untouched(2)

(* C4: in the per-phone queue variants a request that is not yet settled   *)
(* always has a worker loop that will get to it: a running worker drains   *)
(* the queue of its phone.                                                 *)
C4_NoStrandedRequest ==
  variant \in PhoneQueueVariants =>
    \A r \in Reqs :
      reqs[r].status = "pending" =>
        \E w \in Workers : /\ workers[w].key = reqs[r].phone
                           /\ workers[w].pc \notin {"free", "dead"}

(* C5: in part_003 and part_004 a request enqueued for a phone with no     *)
(* active worker gets a worker for that phone in the same step, whatever   *)
(* the other phone's worker and queue are doing; that worker runs on at    *)
(* once, and when it takes the request with the connection open it makes   *)
(* the first provider call in that step; and no enqueue or worker step of  *)
(* one phone changes the pending sequence or the processing flag of the    *)
(* other phone.                                                            *)
C5_StepOf(phone) ==
  \/ \E r \in Reqs : EnqueueStep(r, phone)
  \/ \E w \in Workers : /\ workers'[w] # workers[w]
                        /\ workers[w].key = phone \/ workers'[w].key = phone

C5_OwnWorker ==
  \A r \in Reqs, b \in Phones :
    (/\ variant \in {"p003", "p004"}
     /\ EnqueueStep(r, b)
     /\ WorkersOf(b) = {}) =>
      \E w \in Workers : /\ workers'[w].key = b
                         /\ workers'[w].pc = "loop"
                         /\ busy' = w
                         /\ phoneQueues'[b].requests = <<r>>

C5_FirstCall ==
  \A r \in Reqs, b \in Phones :
    (/\ variant \in {"p003", "p004"}
     /\ DequeueStep(r, b)
     /\ sock # 0 /\ socketReady) =>
      \E w \in Workers : /\ workers'[w].req = r
                         /\ workers'[w].pc = "call"
                         /\ reqs'[r].called

C5_OtherUnchanged ==
  \A a \in Phones, b \in Phones :
    (variant \in {"p003", "p004"} /\ a # b /\ C5_StepOf(b)) =>
      phoneQueues'[a] = phoneQueues[a]

C5_CrossPhoneIndependence ==
  [][C5_OwnWorker /\ C5_FirstCall /\ C5_OtherUnchanged]_vars

\* The workers of both phones are in a provider call at the same time.
C5_Witness ==
  /\ variant \in {"p003", "p004"}
  /\ workers[1].pc = "call" /\ workers[2].pc = "call"
  /\ reqs[workers[1].req].phone = 1
  /\ reqs[workers[2].req].phone = 2

(* C6: in server.js and part_003, when the socket closes with reason       *)
(* loggedOut or badSession the session directory is gone once the close    *)
(* handler has run (so before any later startSock); when it closes with    *)
(* timedOut, connectionClosed, connectionLost or restartRequired the       *)
(* directory is left as it is and one restart is scheduled.                *)
C6_WipePolicy ==
  [][(variant \in {"server", "p003"} /\ CloseStep) =>
       /\ last'.reason \in WipeReasons => sessionDir' = "absent"
       /\ last'.reason \in TransientReasons =>
            (sessionDir' = sessionDir /\ restartTimers' = restartTimers + 1)]_vars

C8_TransientReconnects ==
  [][(variant = "p006" /\ CloseStep /\ last'.reason \in TransientReasons) =>
       (restartTimers' = restartTimers + 1 /\ sessionDir' = sessionDir)]_vars

(* C9 as stated: when startSock / initializeSocket fails in server.js,     *)
(* part_003 or part_000, the process goes on and the catch block schedules *)
(* a retry (the timer that ran is replaced by a new one).                  *)
C9_RetryScheduled ==
  [][(variant \in {"server", "p003", "p000"} /\ InitFailedStep) =>
       (alive' /\ restartTimers' = restartTimers)]_vars

(* C9 amended: when startSock / initializeSocket fails in server.js,       *)
(* part_003 or part_000, the process goes on and the catch block schedules *)
(* a retry, except in part_000 once reconnectAttempts has reached          *)
(* maxReconnectAttempts: scheduleReconnect then schedules nothing.         *)
C9_RetryUnlessCeiling ==
  [][(variant \in {"server", "p003", "p000"} /\ InitFailedStep) =>
       /\ alive'
       /\ restartTimers' =
            IF variant = "p000" /\ reconnectAttempts >= maxReconnectAttempts
              THEN restartTimers - 1
              ELSE restartTimers]_vars

\* part_000: an initialization has just failed at the ceiling and nothing is
\* scheduled any more.
C9_Witness ==
  /\ variant = "p000"
  /\ last.op = "initFailed"
  /\ reconnectAttempts = maxReconnectAttempts
  /\ restartTimers = 0
  /\ alive

(* C10: in part_003, part_000 and part_004 the file under a batch's final  *)
(* name is never a partially written one, at any point of saveCodesToDisk  *)
(* and after a crash at any point.                                         *)
C10_FinalNameComplete ==
  variant \in {"p003", "p000", "p004"} =>
    \A r \in Reqs : files[r].final \in {"absent", "complete"}

\* The process died between writeFileSync and renameSync: the batch is
\* complete under the '.tmp' name and the final name does not exist.
C10_Witness ==
  /\ variant \in {"p003", "p000", "p004"}
  /\ ~alive
  /\ \E r \in Reqs : /\ files[r].tmp = "complete"
                     /\ files[r].final = "absent"
                     /\ \E w \in Workers : workers[w].pc = "rename" /\ workers[w].req = r

(* ------------------------- properties C11 - C20 ------------------------ *)

\* This step is a handler accepting request r (it is queued or generated).
AcceptStep(r) ==
  /\ nextReq = r
  /\ nextReq' = r + 1
  /\ reqs'[r].status = "pending"

\* This step ends a requestPairingCode call of worker w (it returned or threw).
CallEnds(w) ==
  /\ workers[w].pc = "call"
  /\ workers'[w].pc # "call" \/ workers'[w].i # workers[w].i

\* This step makes a requestPairingCode call in worker w.
CallBegins(w) ==
  /\ workers'[w].pc = "call"
  /\ workers[w].pc # "call" \/ workers'[w].i # workers[w].i

AllCodes(codes) == \A j \in 1..Len(codes) : codes[j] = "code"

\* The batch of worker w is complete (generatePairingCodes returns).
BatchComplete(w) == workers[w].pc = "save"

C11_Handed ==
  \A r \in Reqs :
    (variant \in {"p003", "p004"} /\ AcceptStep(r)) =>
      reqs'[r].count = Max(1, Min(last'.count, MAX_COUNT))

C11_Entries ==
  variant \in {"p003", "p004"} =>
    \A w \in Workers :
      BatchComplete(w) => Len(workers[w].codes) = reqs[workers[w].req].count

C11_OneCallPerEntry ==
  \A w \in Workers :
    variant \in {"p003", "p004"} =>
      /\ CallBegins(w) => Len(workers'[w].codes) = workers'[w].i
      /\ CallEnds(w) =>
           \/ /\ workers'[w].codes = Append(workers[w].codes, "code")
              /\ workers'[w].threw = workers[w].threw
           \/ /\ workers'[w].threw
              /\ workers'[w].codes \in {workers[w].codes,
                                         Append(workers[w].codes, "failed")}
      /\ (Len(workers'[w].codes) > Len(workers[w].codes)
            /\ workers'[w].codes[Len(workers'[w].codes)] = "code") => CallEnds(w)

C12_CountInRange ==
  variant = "p000" =>
    /\ \A r \in Reqs :
         reqs[r].arg # <<>> => reqs[r].count \in 1..MAX_COUNT
    /\ \A w \in Workers :
         BatchComplete(w) => Len(workers[w].codes) = reqs[workers[w].req].count

\* This step is a handler answering or accepting request r.
HandlerStep(r) ==
  /\ nextReq = r
  /\ nextReq' = r + 1

\* Request r was answered with an error by the handler: nothing was kept of it.
Refused(r) == reqs[r].status = "rejected" /\ reqs[r].arg = <<>>

C13_CallsDigitsOnly ==
  variant \in {"server", "p000"} =>
    \A r \in Reqs :
      reqs[r].called =>
        /\ \A j \in 1..Len(reqs[r].arg) : reqs[r].arg[j] \in Digits
        /\ Len(reqs[r].arg) >= minDigits

C13_RefusedStays ==
  variant \in {"server", "p000"} =>
    \A r \in Reqs :
      Refused(r) =>
        /\ ~reqs[r].called
        /\ \A k \in DOMAIN phoneQueues : r \notin Range(phoneQueues[k].requests)
        /\ \A w \in Workers : workers[w].req # r

C13_ShortRefused ==
  \A r \in Reqs :
    (/\ variant \in {"server", "p000"}
     /\ HandlerStep(r)
     /\ Len(DigitsOnly(PhoneNumber[last'.number])) < minDigits) =>
      /\ reqs'[r].status = "rejected"
      /\ reqs'[r].arg = <<>>
      /\ UNCHANGED <<phoneQueues, workers>>

(* C13: in server.js and part_000 every requestPairingCode call is made    *)
(* with a phone text that holds digits only, at least minDigits of them;   *)
(* a request whose digits-only phone is empty or shorter is answered with  *)
(* an error by the handler, is never queued, and no call is made for it.   *)
C13_PhoneValidated ==
  /\ [][C13_ShortRefused]_vars
  /\ [](C13_CallsDigitsOnly /\ C13_RefusedStays)

\* server.js: the formatted text of a phone was submitted, the call was made
\* with its digits, and an earlier request with a short phone was refused.
C13_Witness ==
  /\ variant = "server"
  /\ last.op = "request"
  /\ PhoneNumber[last.number] # DigitsOnly(PhoneNumber[last.number])
  /\ nextReq > 2
  /\ reqs[nextReq - 1].called
  /\ reqs[nextReq - 1].arg = DigitsOnly(PhoneNumber[last.number])
  /\ reqs[nextReq - 2].err = "invalidPhone"
  /\ ~reqs[nextReq - 2].called

(* C14: in part_003 and part_004 two accepted requests whose phone texts   *)
(* have the same digits-only form are in the same per-phone queue, and no  *)
(* two workers generate batches for such requests at the same time.        *)
C14_NormalizedKey ==
  variant \in {"p003", "p004"} =>
    /\ \A r1, r2 \in Reqs :
         (/\ reqs[r1].arg # <<>>
          /\ reqs[r2].arg # <<>>
          /\ DigitsOnly(reqs[r1].arg) = DigitsOnly(reqs[r2].arg)) =>
           reqs[r1].phone = reqs[r2].phone
    /\ \A w1, w2 \in Workers :
         (/\ w1 # w2
          /\ workers[w1].pc \in {"call", "delay", "backoff"}
          /\ workers[w2].pc \in {"call", "delay", "backoff"}) =>
           DigitsOnly(reqs[workers[w1].req].arg) # DigitsOnly(reqs[workers[w2].req].arg)

\* This step is worker w making a requestPairingCode call again for the index
\* whose call was answered with a rate-limit error.
RetryStep(w) ==
  /\ workers[w].pc = "rateWait"
  /\ workers'[w].pc = "genCall"

(* C15: in server.js the retries of an index after rate-limit errors are   *)
(* bounded: in every run of generatePairingCodes there is a last retry,    *)
(* after which the run returns or throws, also when the provider answers   *)
(* every call with a rate-limit error while the connection stays open.     *)
C15_RetriesBounded ==
  \A w \in Workers : <>[][~RetryStep(w)]_vars

\* This step is worker w of server.js going on after a sleep.
GenWakes(w) ==
  /\ workers[w].pc \in {"genDelay", "rateWait"}
  /\ workers'[w].pc # workers[w].pc

C16_AbortsOnceLost ==
  \A w \in Workers :
    (variant = "server" /\ workers[w].lost /\ GenWakes(w)) =>
      /\ workers'[w].pc # "genCall"
      /\ reqs'[workers[w].req].status = "rejected"
      /\ reqs'[workers[w].req].err = "connectionLost"

C16_NoPartialBatch ==
  \A w \in Workers :
    (/\ variant = "server"
     /\ workers[w].pc \in {"genCall", "genDelay", "rateWait"}
     /\ reqs'[workers[w].req].status = "resolved") =>
      Len(workers[w].codes) + 1 = reqs[workers[w].req].count

(* C16: in server.js, once isConnected has become false during a batch, no *)
(* further requestPairingCode call is made for that batch and the run      *)
(* throws 'Connection lost during code generation'; a run that returns,    *)
(* returns exactly codeCount codes.                                        *)
C16_LostAborts == [][C16_AbortsOnceLost /\ C16_NoPartialBatch]_vars

(* C17: in part_003 and part_004, once the connection has closed while a   *)
(* worker generates a batch, the worker makes no further                   *)
(* requestPairingCode call for that batch and the request is not resolved  *)
(* with a batch (it is rejected).                                          *)
C17_FailFastOnClose ==
  [][\A w \in Workers :
       (variant \in {"p003", "p004"} /\ workers[w].lost) =>
         /\ ~(/\ workers'[w].pc = "call"
              /\ workers[w].pc # "call" \/ workers'[w].i # workers[w].i)
         /\ reqs'[workers[w].req].status = "resolved" =>
              reqs[workers[w].req].status = "resolved"]_vars

(* C18: at most one socket created by makeWASocket is live (created and    *)
(* not yet closed) in every reachable state: startSock creates a socket    *)
(* only when the previous one has closed, also on the restart that follows *)
(* a batch or a request error.                                             *)
C18_OneConnection ==
  Cardinality({s \in Socks : sockState[s] \in {"connecting", "open"}}) <= 1

\* part_000 with reconnectAttempts at maxReconnectAttempts.
AtCeiling == variant = "p000" /\ reconnectAttempts = maxReconnectAttempts

C19_NeverExceeds ==
  variant = "p000" =>
    /\ reconnectAttempts <= maxReconnectAttempts
    /\ reconnectAttempts = maxReconnectAttempts => ~socketReady

\* At the ceiling a close event adds no timer and a failed initialization
\* only uses up the timer that ran it.
C19_NothingScheduled ==
  /\ (AtCeiling /\ CloseStep) => restartTimers' = restartTimers
  /\ (AtCeiling /\ InitFailedStep) => restartTimers' = restartTimers - 1

C19_StaysFailed ==
  AtCeiling => (reconnectAttempts' = maxReconnectAttempts /\ ~socketReady')

(* C19 as stated: in part_000 reconnectAttempts never exceeds              *)
(* maxReconnectAttempts; once it equals it, no close event and no          *)
(* initialization error schedules another initializeSocket, and in every   *)
(* later state the counter is still at the ceiling and ready is false.     *)
C19_PermanentFailure ==
  /\ []C19_NeverExceeds
  /\ [][C19_NothingScheduled /\ C19_StaysFailed]_vars

\* At the ceiling only the 'open' event of a socket changes the counter or
\* sets ready, and with no timer and no socket left nothing changes at all.
C19_OnlyOpenResets ==
  AtCeiling =>
    /\ (reconnectAttempts' # reconnectAttempts \/ socketReady') =>
         /\ \E s \in Socks : sockState[s] = "connecting" /\ sockState'[s] = "open"
         /\ reconnectAttempts' = 0
         /\ socketReady'
    /\ (restartTimers = 0 /\ \A s \in Socks : sockState[s] \in {"none", "closed"}) =>
         UNCHANGED <<reconnectAttempts, socketReady, restartTimers, sockState>>

(* C19 amended: in part_000 reconnectAttempts never exceeds                *)
(* maxReconnectAttempts and ready is false while it equals it; at the      *)
(* ceiling no close event and no initialization error schedules another    *)
(* initializeSocket.  The attempt that was scheduled when the counter      *)
(* reached the ceiling still runs: only the 'open' event of its socket     *)
(* resets the counter (to 0) and sets ready; once that attempt has failed  *)
(* or its socket has closed, nothing changes any more.                     *)
C19_CeilingHolds ==
  /\ []C19_NeverExceeds
  /\ [][C19_NothingScheduled /\ C19_OnlyOpenResets]_vars

\* part_000: the socket of the last attempt has closed at the ceiling and no
\* timer is left.
C19_Witness ==
  /\ variant = "p000"
  /\ last.op = "close"
  /\ reconnectAttempts = maxReconnectAttempts
  /\ restartTimers = 0
  /\ \A s \in Socks : sockState[s] \in {"none", "closed"}
  /\ ~socketReady

(* C20: in part_000 a close with reason loggedOut, whatever the value of   *)
(* reconnectAttempts, wipes the session credentials (when fs.rmSync does   *)
(* not fail), resets reconnectAttempts to 0 and schedules a reconnect: a   *)
(* timer is added, and the counter is 0, or 1 when the scheduling counts   *)
(* as the first attempt.                                                   *)
C20_LoggedOutResets ==
  [][(/\ variant = "p000"
      /\ CloseStep
      /\ last'.reason = DisconnectReason.loggedOut
      /\ ~last'.rmThrew) =>
       /\ sessionDir' = "absent"
       /\ reconnectAttempts' \in {0, 1}
       /\ restartTimers' = restartTimers + 1]_vars

(* ------------------------- properties C21 - C30 ------------------------ *)

\* This step of part_000 is a scheduleReconnect that sets its timer.
ScheduleStep ==
  /\ variant = "p000"
  /\ \/ CloseStep /\ restartTimers' = restartTimers + 1
     \/ InitFailedStep /\ restartTimers' = restartTimers

(* C21: in part_000 every scheduled reconnect increments reconnectAttempts *)
(* by exactly 1 (and nothing else increments it); with n the incremented   *)
(* counter, 1 <= n <= maxReconnectAttempts, the timer's delay is           *)
(* min(baseDelay * 2^n, maxDelay) ms, which never exceeds maxDelay and is  *)
(* not below the delay of the previous consecutive attempt.                *)
C21_BackoffSchedule ==
  [][/\ ScheduleStep =>
          LET n == reconnectAttempts' IN
            /\ n = reconnectAttempts + 1
            /\ n \in 1..maxReconnectAttempts
            /\ last'.delay = (IF baseDelay * 2^n < maxDelay
                                THEN baseDelay * 2^n ELSE maxDelay)
            /\ last'.delay <= maxDelay
            /\ n > 1 => last'.delay >= (IF baseDelay * 2^(n - 1) < maxDelay
                                          THEN baseDelay * 2^(n - 1) ELSE maxDelay)
     /\ (variant = "p000" /\ reconnectAttempts' > reconnectAttempts) => ScheduleStep
    ]_vars

\* part_000: the fifth consecutive reconnect has just been scheduled, the
\* first whose delay is the cap (baseDelay * 2^5 is above it).
C21_Witness ==
  /\ variant = "p000"
  /\ last.op \in {"close", "initFailed"}
  /\ reconnectAttempts = 5
  /\ last.delay = maxDelay
  /\ restartTimers = 1

\* This step is the 'open' event of a socket.
OpenStep == \E s \in Socks : sockState[s] = "connecting" /\ sockState'[s] = "open"

(* C22: in part_000 an 'open' event sets ready to true, connecting to      *)
(* false and reconnectAttempts to 0, and in every reachable state ready    *)
(* implies reconnectAttempts = 0.                                          *)
C22_OpenResets ==
  /\ [][(variant = "p000" /\ OpenStep) =>
          (socketReady' /\ ~connecting' /\ reconnectAttempts' = 0)]_vars
  /\ []((variant = "p000" /\ socketReady) => reconnectAttempts = 0)

\* part_000: a socket has just opened after three consecutive reconnects.
C22_Witness ==
  /\ variant = "p000"
  /\ last.op = "open"
  /\ last.attempts = 3
  /\ socketReady
  /\ ~connecting
  /\ reconnectAttempts = 0

\* This step is the worker of part_000 taking request r from the queue.
WorkerTakes(r) ==
  /\ variant = "p000"
  /\ DequeueStep(r, QueueKey(variant, reqs[r].phone))
  /\ last'.op # "timer"

C23_ExpiredStep ==
  \A r \in Reqs :
    (WorkerTakes(r) /\ now - reqs[r].ts > expiryAge) =>
      /\ reqs'[r].status = "rejected"
      /\ reqs'[r].err = "expired"
      /\ ~reqs'[r].called
      /\ files' = files
      /\ \E w \in Workers : /\ busy = w
                             /\ busy' = w
                             /\ workers'[w].pc \in {"loop", "wake"}
                             /\ workers'[w].req = 0

C23_ExpiredStays ==
  variant = "p000" =>
    \A r \in Reqs :
      reqs[r].err = "expired" =>
        /\ reqs[r].status = "rejected"
        /\ ~reqs[r].called
        /\ files[r].tmp = "absent" /\ files[r].final = "absent"
        /\ \A w \in Workers : workers[w].req # r

(* C23: in part_000 a request that is older than expiryAge (5 minutes)     *)
(* when the worker dequeues it is rejected with 'Request expired', no      *)
(* requestPairingCode call is ever made for it, nothing is persisted for   *)
(* it, and the worker is back at the head of its loop for the next         *)
(* pending request.                                                        *)
C23_ExpiryAtDrain ==
  /\ [][C23_ExpiredStep]_vars
  /\ []C23_ExpiredStays

\* The first request was served, the second waited longer than expiryAge
\* and has just been rejected at drain; the worker is at its loop head.
C23_Witness ==
  /\ variant = "p000"
  /\ reqs[1].status = "resolved"
  /\ reqs[2].err = "expired"
  /\ now - reqs[2].ts > expiryAge
  /\ reqs[2].timer
  /\ \E w \in Workers : busy = w /\ workers[w].pc = "wake"

\* This step is the timer of request r firing.
TimerStep(r) == reqs[r].timer /\ ~reqs'[r].timer

(* C24: in part_000, when the timer of request R fires and R is still      *)
(* pending in requestQueue, exactly R is removed from the queue and R's    *)
(* future is rejected; when R is no longer in the queue (it is being       *)
(* processed or is settled) the queue is unchanged and no future is        *)
(* rejected; also for requests enqueued within the same millisecond.       *)
C24_TimerRemovesOwn ==
  [][\A r \in Reqs :
       (variant = "p000" /\ TimerStep(r)) =>
         LET k == QueueKey(variant, reqs[r].phone)
             q == phoneQueues[k].requests
         IN  IF \E j \in 1..Len(q) : q[j] = r
               THEN /\ phoneQueues'[k].requests = SelectSeq(q, LAMBDA x : x # r)
                    /\ reqs'[r].status = "rejected"
               ELSE /\ phoneQueues' = phoneQueues
                    /\ \A x \in Reqs : reqs'[x].status = reqs[x].status]_vars

(* C25: in part_003 and part_004, when saveCodesToDisk has renamed the     *)
(* batch file into place and then creates or appends to log.csv, whether   *)
(* that succeeds or fails the batch file stays under its final name and    *)
(* the request is resolved with the codes and the file path.               *)
C25_AuditLogBestEffort ==
  [][\A w \in Workers :
       (/\ variant \in {"p003", "p004"}
        /\ workers[w].pc = "log"
        /\ workers'[w].pc # "log") =>
         /\ files'[workers[w].req].final = "complete"
         /\ reqs'[workers[w].req].status = "resolved"
         /\ reqs'[workers[w].req].file]_vars

\* This step is fs.writeFileSync or fs.renameSync throwing in the save of
\* worker w: the write is not followed by the rename, or the rename leaves
\* the files as they were.
SaveFails(w) ==
  \/ workers[w].pc = "writing" /\ workers'[w].pc # "rename"
  \/ workers[w].pc = "rename" /\ files' = files

C26_FailedSave ==
  \A w \in Workers :
    (variant \in {"p003", "p000"} /\ SaveFails(w)) =>
      /\ reqs'[workers[w].req].status = "rejected"
      /\ reqs'[workers[w].req].err = "persist"
      /\ files'[workers[w].req].final = "absent"
      /\ logCsv' = logCsv
      /\ workers'[w].pc \in {"loop", "cooldown"}
      /\ workers'[w].req = 0

\* A row is appended to log.csv only for a batch that is under its final name.
C26_RowNeedsFile ==
  (variant \in {"p003", "p000"} /\ logCsv'.rows # logCsv.rows) =>
    /\ Len(logCsv'.rows) = Len(logCsv.rows) + 1
    /\ files[logCsv'.rows[Len(logCsv'.rows)]].final = "complete"

(* C26: in part_003 and part_000, when writing or renaming the batch file  *)
(* fails, the request's future is rejected with that error, no file is     *)
(* under the batch's final name, no audit row is appended for it, and the  *)
(* worker goes on with its loop (the next pending request).                *)
C26_PersistFailureSurfaced == [][C26_FailedSave /\ C26_RowNeedsFile]_vars

\* The rename of the first request's batch failed (the '.tmp' file is left,
\* nothing under the final name, no audit row) and the same worker is
\* generating the next request of that phone.
C26_Witness ==
  /\ variant \in {"p003", "p000"}
  /\ reqs[1].status = "rejected"
  /\ reqs[1].err = "persist"
  /\ files[1].tmp = "complete"
  /\ files[1].final = "absent"
  /\ logCsv.rows = <<>>
  /\ \E w \in Workers : /\ workers[w].req = 2
                         /\ workers[w].pc = "call"
                         /\ workers[w].key = QueueKey(variant, reqs[1].phone)

SentinelVariants == {"p003", "p004", "p000"}

\* The entries of a batch in the making are those of the indices before
\* the index the worker is at; the batch handed to saveCodesToDisk has one
\* entry for every index below count.
C27_SlotsAligned ==
  \A w \in Workers :
    (variant \in SentinelVariants /\ workers[w].req # 0
       /\ reqs[workers[w].req].count >= 1) =>
      LET wk == workers[w]
          cnt == reqs[wk.req].count
      IN  /\ wk.pc \in {"call", "backoff"} => (Len(wk.codes) = wk.i /\ wk.i < cnt)
          /\ wk.pc = "delay" => (Len(wk.codes) = wk.i + 1 /\ wk.i < cnt - 1)
          /\ wk.pc \in {"save", "writing", "rename", "log"} => Len(wk.codes) = cnt

\* While a worker is at one request its entries are only added to, never
\* rewritten; a code is added only by the call made for the index of that
\* entry, one at a time, and every other entry added is the sentinel.
C27_EntryForIndex ==
  \A w \in Workers :
    (variant \in SentinelVariants /\ workers[w].req # 0
       /\ workers'[w].req = workers[w].req) =>
      LET old == workers[w].codes
          new == workers'[w].codes
      IN  /\ Len(new) >= Len(old)
          /\ \A j \in 1..Len(old) : new[j] = old[j]
          /\ \A j \in (Len(old) + 1)..Len(new) :
                \/ new[j] = "failed"
                \/ /\ new[j] = "code"
                   /\ workers[w].pc = "call"
                   /\ j = workers[w].i + 1
                   /\ Len(new) = Len(old) + 1

(* C27: in part_003, part_004 and part_000, for every count >= 1 and every *)
(* pattern of provider successes and failures, the batch has exactly count *)
(* entries, entry i being the code obtained by the call for index i or the *)
(* failure sentinel; a failed slot does not shift, duplicate or drop the   *)
(* entries of other slots.                                                 *)
C27_OneSlotPerIndex == [][C27_EntryForIndex]_vars /\ []C27_SlotsAligned

\* A batch of two is complete: the call for its first index failed, the
\* call for its second index gave the code that is the second entry.
C27_Witness ==
  \E w \in Workers :
    /\ variant \in SentinelVariants
    /\ workers[w].pc = "save"
    /\ reqs[workers[w].req].count = 2
    /\ workers[w].codes = <<"failed", "code">>

\* The chunks the claim describes: ceil(n/4) of them, the k-th holding the
\* characters 4(k-1)+1 .. 4k of the raw code (the last one what is left).
ChunksOf(raw) ==
  [k \in 1..((Len(raw) + 3) \div 4) |->
     SubSeq(raw, 4 * (k - 1) + 1, Min(4 * k, Len(raw)))]

\* The text without its separators, the characters at positions 5, 10, ...
Unseparate(f) ==
  [j \in 1..(Len(f) - (Len(f) \div 5)) |-> f[j + ((j - 1) \div 4)]]

SeparatorsAreDashes(f) ==
  \A j \in 1..Len(f) : (j % 5 = 0) => f[j] = "-"

\* The text without any '-'.
StripDashes(f) == SelectSeq(f, LAMBDA c : c # "-")

Chunked(raw, f) ==
  /\ f = Join(ChunksOf(raw))
  /\ SeparatorsAreDashes(f)
  /\ Unseparate(f) = raw

(* C28 as stated: for every non-empty raw code the formatted code is the   *)
(* raw characters in order, in ceil(n/4) chunks of 4 (the last of 1..4)    *)
(* joined by '-', and removing the separators gives back the raw code.     *)
C28_EveryRawCode ==
  (last.op = "format" /\ last.raw # <<>>) => Chunked(last.raw, last.formatted)

(* C28 amended: the same for every non-empty raw code without a line       *)
(* terminator; when the raw code holds no '-' either, removing every '-'   *)
(* of the formatted code gives back the raw code.                          *)
C28_CodeFormatting ==
  (/\ last.op = "format"
   /\ last.raw # <<>>
   /\ \A j \in 1..Len(last.raw) : last.raw[j] \notin {"\n"}) =>
     /\ Chunked(last.raw, last.formatted)
     /\ (\A j \in 1..Len(last.raw) : last.raw[j] # "-") =>
          StripDashes(last.formatted) = last.raw

\* A raw code of nine letters is formatted: three chunks, the last of one.
C28_Witness ==
  /\ last.op = "format"
  /\ last.raw = <<"A", "B", "B", "A", "B", "A", "A", "B", "A">>
  /\ last.formatted = <<"A", "B", "B", "A", "-", "B", "A", "A", "B", "-", "A">>

(* C29: in part_005 no close of the connection, whatever its reason        *)
(* (loggedOut included), and no generation request that completed or       *)
(* failed ends the process: the server goes on running.                    *)
C29_ProcessSurvives ==
  [][(variant = "p005" /\ alive) => alive']_vars

(* C30: in part_003 the session directory is deleted only by a close with  *)
(* reason badSession or loggedOut or by POST /api/reset; a batch that      *)
(* completes and a close with another reason never wipe the credentials.   *)
C30_ClearedOnlyWhenNecessary ==
  [][(variant = "p003" /\ sessionDir # "absent" /\ sessionDir' = "absent") =>
       \/ resets' # resets
       \/ /\ last'.op = "close"
          /\ last'.reason \in {DisconnectReason.badSession,
                                DisconnectReason.loggedOut}]_vars

(* ------------------------ properties C31 - C40 ------------------------- *)

\* This step ends the run of generatePairingCodes in worker w.
GenEnds(w) ==
  /\ workers[w].pc \in {"genCall", "genDelay", "rateWait"}
  /\ workers'[w].pc = "free"

\* The end of a run sets one timer of clearSessionAndRestart, and nothing
\* else does; no step but that timer's callback changes the session.
C31_RunSetsOneTimer ==
  variant = "server" =>
    /\ \A w \in Workers : GenEnds(w) => clearTimers' = clearTimers + 1
    /\ clearTimers' > clearTimers =>
         /\ clearTimers' = clearTimers + 1
         /\ Cardinality({w \in Workers : GenEnds(w)}) = 1
         /\ sessionDir' = sessionDir

\* The timer's callback is clearSessionAndRestart: the session directory is
\* removed (it stays as it was when fs.rmSync throws) and one startSock is
\* scheduled.
C31_TimerCleans ==
  (variant = "server" /\ clearTimers' < clearTimers) =>
    /\ clearTimers' = clearTimers - 1
    /\ sessionDir' \in {"absent", sessionDir}
    /\ restartTimers' = restartTimers + 1

\* A request answered by the tests of the handler or at the head of
\* generatePairingCodes sets no timer and leaves the session alone.
C31_RefusedNoWipe ==
  \A r \in Reqs :
    (variant = "server" /\ reqs[r].status = "none" /\ reqs'[r].status = "rejected") =>
      /\ clearTimers' = clearTimers
      /\ sessionDir' = sessionDir
      /\ restartTimers' = restartTimers

(* C31: in server.js every call of generatePairingCodes that enters the    *)
(* generation loop, whether it returns codes or throws, is followed by     *)
(* exactly one clearSessionAndRestart (session wipe, then a startSock); a  *)
(* call rejected by the connection, phone or count tests triggers none.    *)
C31_CleanupAfterRun ==
  [][C31_RunSetsOneTimer /\ C31_TimerCleans /\ C31_RefusedNoWipe]_vars

\* One run returned its codes, its timer has fired and wiped the session,
\* and a request refused by the tests was answered next to it.
C31_Witness ==
  /\ variant = "server"
  /\ \E r \in Reqs : reqs[r].status = "resolved"
  /\ \E r \in Reqs : reqs[r].status = "rejected" /\ reqs[r].arg = <<>>
  /\ clearTimers = 0
  /\ sessionDir = "absent"

(* C32: in part_003 and part_004, when a worker has finished a request of  *)
(* a phone (resolved or rejected) and another request of that phone is     *)
(* pending, the worker waits the cooldown delay before it dequeues it.     *)
C32_CooldownBetweenDrains ==
  [][\A r \in Reqs, w \in Workers :
       (/\ variant \in {"p003", "p004"}
        /\ reqs[r].status = "pending"
        /\ reqs'[r].status \in {"resolved", "rejected"}
        /\ workers[w].pc # "free"
        /\ workers[w].key = reqs[r].phone
        /\ phoneQueues'[reqs[r].phone].requests # <<>>) =>
         workers'[w].pc = "cooldown"]_vars

(* C33: in part_004, part_000 and part_003, within one batch the worker    *)
(* waits a delay between any two consecutive requestPairingCode calls,     *)
(* also when the earlier call failed, and no delay follows the last index. *)
C33_DelayBetweenCalls ==
  [][\A w \in Workers :
       variant \in {"p004", "p000", "p003"} =>
         /\ (/\ workers'[w].pc = "call"
             /\ workers'[w].req = workers[w].req
             /\ workers[w].pc # "call" \/ workers'[w].i # workers[w].i) =>
               workers[w].pc \in {"delay", "backoff"}
         /\ (workers'[w].pc = "delay" /\ workers[w].pc # "delay") =>
               workers'[w].i < reqs'[workers'[w].req].count - 1]_vars

\* The sock.requestPairingCode calls issued and not yet returned or thrown.
RECURSIVE AbandonedUpTo(_)
AbandonedUpTo(r) == IF r = 0 THEN 0 ELSE reqs[r].abandoned + AbandonedUpTo(r - 1)

Outstanding ==
  Cardinality({w \in Workers : workers[w].pc = "call"}) + AbandonedUpTo(MaxReq)

(* C34: in part_000 at most one sock.requestPairingCode call is            *)
(* outstanding at every moment, across all phones, also when               *)
(* generatePairingCode gives up on a call after REQUEST_TIMEOUT.           *)
C34_OneOutstandingCall == variant = "p000" => Outstanding <= 1

(* C35: in part_006 (and part_002, whose save is the same) a crash at any  *)
(* point of the save leaves no partially written batch under the batch's   *)
(* final file name.                                                        *)
C35_NoPartialFinal ==
  (variant = "p006" /\ ~alive) =>
    \A r \in Reqs : files[r].final # "partial"

\* log.csv is created with its header and then only appended to: it is not
\* removed, the header is not written again, the rows it has stay as they
\* are, and a step adds at most one row.
C36_AppendOnly ==
  variant \in {"p003", "p004"} =>
    /\ logCsv.exists => logCsv'.exists
    /\ logCsv.exists => logCsv'.headers = logCsv.headers
    /\ Len(logCsv'.rows) \in {Len(logCsv.rows), Len(logCsv.rows) + 1}
    /\ \A j \in 1..Len(logCsv.rows) : logCsv'.rows[j] = logCsv.rows[j]

\* The file has its header exactly once, and one row for every request that
\* resolved, naming the file of that request, and no other row.
C36_RowsAreResolved ==
  variant \in {"p003", "p004"} =>
    /\ logCsv.exists <=> logCsv.headers = 1
    /\ logCsv.headers \in {0, 1}
    /\ ~logCsv.exists => logCsv.rows = <<>>
    /\ \A j, k \in 1..Len(logCsv.rows) : logCsv.rows[j] = logCsv.rows[k] => j = k
    /\ {logCsv.rows[j] : j \in 1..Len(logCsv.rows)}
         = {r \in Reqs : reqs[r].status = "resolved"}
    /\ \A j \in 1..Len(logCsv.rows) :
         /\ reqs[logCsv.rows[j]].file
         /\ files[logCsv.rows[j]].final = "complete"

Running(k) ==
  \E w \in Workers : workers[w].key = k /\ workers[w].pc \notin {"free", "dead"}

(* C37: in part_003, part_004, part_006 and part_000, whenever control is  *)
(* back in the event loop, a queue with pending requests has its           *)
(* processing flag set and a worker loop running for it, and the flag is   *)
(* set only while such a worker loop is running.                           *)
C37_NoLostWakeup ==
  (variant \in QueueVariants /\ alive /\ busy = NoWorker) =>
    \A k \in Numbers :
      /\ phoneQueues[k].requests # <<>> => (phoneQueues[k].processing /\ Running(k))
      /\ phoneQueues[k].processing => Running(k)

\* The socket stored in the global sock is in the Open state.
SockIsOpen == sock # 0 /\ sockState[sock] = "open"

\* The ready flag in the new state, and a call made by this step.
C38_ReadyMeansOpen ==
  variant \in {"p003", "server"} =>
    /\ socketReady' => (SockIsOpen')
    /\ \A w \in Workers :
         (/\ workers'[w].pc \in {"call", "genCall"}
          /\ \/ workers[w].pc # workers'[w].pc
             \/ workers[w].i # workers'[w].i
             \/ workers[w].attempt # workers'[w].attempt) => (SockIsOpen')

(* C38: in part_003 and server.js the ready flag (socketReady /            *)
(* isConnected) is true only while the global sock refers to a socket that *)
(* is open, and every sock.requestPairingCode call is made on a socket     *)
(* that is open.                                                           *)
C38_CallsOnOpenSocket == [][C38_ReadyMeansOpen]_vars

(* C39: in part_003, while a worker is inside a batch for one phone, the   *)
(* cleanup timer set at the end of a batch of a different phone (no        *)
(* request of the worker's own phone has yet been resolved or rejected)    *)
(* neither sets socketReady to false nor removes the session directory.    *)
C39_OtherBatchHarmless ==
  [][\A w \in Workers :
       (/\ variant = "p003"
        /\ workers[w].pc \in {"call", "delay", "backoff"}
        /\ clearTimers' < clearTimers
        /\ \A r \in Reqs : reqs[r].status \in {"resolved", "rejected"} =>
                              reqs[r].phone # workers[w].key) =>
         /\ socketReady' = socketReady
         /\ sessionDir' = sessionDir]_vars

(* C40: in part_000, ready and connecting are never both true; at most one *)
(* initialization exists at a time, counting a pending reconnect timer, a  *)
(* run of initializeSocket (connecting is true) and a socket that has not  *)
(* closed; a timer that calls initializeSocket while connecting is true    *)
(* changes nothing but itself.                                             *)
C40_NotReadyAndConnecting ==
  variant = "p000" => ~(socketReady /\ connecting)

C40_OneInFlight ==
  variant = "p000" =>
    /\ restartTimers + (IF connecting THEN 1 ELSE 0) <= 1
    /\ restartTimers + Cardinality(LiveSocks) <= 1

C40_CallWhileConnecting ==
  (variant = "p000" /\ connecting /\ restartTimers' < restartTimers) =>
     UNCHANGED <<sock, sockState, socketReady, connecting, reconnectAttempts,
                 sessionDir, clearTimers, resets, alive, now, queueVars>>

C40_SingleInitialization ==
  /\ []C40_NotReadyAndConnecting
  /\ []C40_OneInFlight
  /\ [][C40_CallWhileConnecting]_vars

\* A reconnect timer has run initializeSocket and its socket has not opened.
C40_Witness ==
  /\ variant = "p000"
  /\ connecting
  /\ ~socketReady
  /\ reconnectAttempts > 0
  /\ restartTimers = 0
  /\ sock # 0
  /\ sockState[sock] = "connecting"
====
